---- MODULE Spec2Model ----
(***************************************************************************)
(* Model of the analyze-speech edge function                               *)
(* (supabase/functions/analyze-speech/index.ts): request validation, the   *)
(* two upstream calls, the tolerant JSON extraction/repair ladder and the  *)
(* result normaliser; and of the row-level-security policies of the        *)
(* speech_analyses table (supabase/migrations).  The file index.ts holds   *)
(* two handlers: the current one (transcribe, then analyse) and an earlier *)
(* one (analyse the recording directly); both are modelled.                *)
(*                                                                         *)
(* Text is a sequence of lexical units.  A unit is one structural          *)
(* character (brace, bracket, comma, colon, quote), one whitespace         *)
(* character, one digit, the                                               *)
(* three-backtick fence, the two-character escape backslash-n, or a run of *)
(* letters (a key name, a literal, the fence tag, prose).  Every regular   *)
(* expression of the source treats the letters of a run alike, so a run is *)
(* one unit.                                                               *)
(*                                                                         *)
(* JavaScript values are records of one shape [t, n, s, k, c]:             *)
(*   t  the type tag, n the number, s the characters of a string,          *)
(*   k/c the property names and property values of an object or array      *)
(*   (an array element has the name IDX, an expando property its own name).*)
(***************************************************************************)
EXTENDS Integers, Sequences, FiniteSets, TLC

\* ------------------------------------------------------------------------
\* Lexical units
\* ------------------------------------------------------------------------
QUOTE == "\""
SP == " "
NL == "\n"
ESC == "\\n"
\* The unit that stands for three consecutive backticks.
FENCE == "<fence>"
\* The tag is matched in any letter case.
TAGS == {"json", "JSON", "Json"}
WS == {SP, NL}
DIGITS == <<"0", "1", "2", "3", "4", "5", "6", "7", "8", "9">>
DigitSet == {DIGITS[i] : i \in 1..10}
DigitVal(d) == (CHOOSE i \in 1..10 : DIGITS[i] = d) - 1
IDX == <<"#">>

\* ------------------------------------------------------------------------
\* JavaScript values
\* ------------------------------------------------------------------------
Undef == [t |-> "undef", n |-> 0, s |-> <<>>, k |-> <<>>, c |-> <<>>]
Null == [t |-> "null", n |-> 0, s |-> <<>>, k |-> <<>>, c |-> <<>>]
NaN == [t |-> "nan", n |-> 0, s |-> <<>>, k |-> <<>>, c |-> <<>>]
Bool(b) == [t |-> "bool", n |-> IF b THEN 1 ELSE 0, s |-> <<>>, k |-> <<>>, c |-> <<>>]
Num(x) == [t |-> "num", n |-> x, s |-> <<>>, k |-> <<>>, c |-> <<>>]
Str(x) == [t |-> "str", n |-> 0, s |-> x, k |-> <<>>, c |-> <<>>]
Obj(ks, cs) == [t |-> "obj", n |-> 0, s |-> <<>>, k |-> ks, c |-> cs]
Arr(cs) == [t |-> "arr", n |-> 0, s |-> <<>>, k |-> [i \in 1..Len(cs) |-> IDX], c |-> cs]
EmptyObj == Obj(<<>>, <<>>)

IsPrimitive(v) == v.t \in {"bool", "num", "nan", "str"}
IsNullish(v) == v.t \in {"undef", "null"}

\* ToBoolean: undefined, null, false, 0, NaN and the empty string are falsy.
Truthy(v) ==
  CASE v.t \in {"undef", "null", "nan"} -> FALSE
    [] v.t \in {"bool", "num"} -> v.n # 0
    [] v.t = "str" -> Len(v.s) > 0
    [] OTHER -> TRUE

HasProp(v, key) == \E i \in 1..Len(v.k) : v.k[i] = key

\* v[key] for a non-nullish v: an own property of an object or array,
\* undefined on a primitive (none of the names used is on a prototype).
Get(v, key) ==
  IF v.t \in {"obj", "arr"} /\ HasProp(v, key)
    THEN v.c[CHOOSE i \in 1..Len(v.k) : v.k[i] = key]
    ELSE Undef

\* v[key] = x on an object or array: an existing property keeps its place,
\* a new one is added last.
Put(v, key, x) ==
  IF HasProp(v, key)
    THEN [v EXCEPT !.c[CHOOSE i \in 1..Len(v.k) : v.k[i] = key] = x]
    ELSE [v EXCEPT !.k = Append(v.k, key), !.c = Append(v.c, x)]

\* ------------------------------------------------------------------------
\* JSON.parse
\* ------------------------------------------------------------------------
ParseFail == [ok |-> FALSE, v |-> Undef, i |-> 0]
ParseOk(v, i) == [ok |-> TRUE, v |-> v, i |-> i]

RECURSIVE SkipWs(_, _)
SkipWs(txt, i) ==
  IF i <= Len(txt) /\ txt[i] \in WS THEN SkipWs(txt, i + 1) ELSE i

\* A string: the characters up to the next quote; a raw line break is not
\* allowed inside, the escape stands for one.
RECURSIVE ParseString(_, _, _)
ParseString(txt, i, acc) ==
  IF i > Len(txt) THEN ParseFail
  ELSE IF txt[i] = QUOTE THEN ParseOk(Str(acc), i + 1)
  ELSE IF txt[i] = NL THEN ParseFail
  ELSE IF txt[i] = ESC THEN ParseString(txt, i + 1, Append(acc, NL))
  ELSE ParseString(txt, i + 1, Append(acc, txt[i]))

\* A number: a run of digits with no leading zero.
RECURSIVE ParseNumber(_, _, _)
ParseNumber(txt, i, acc) ==
  IF i <= Len(txt) /\ txt[i] \in DigitSet
    THEN ParseNumber(txt, i + 1, acc * 10 + DigitVal(txt[i]))
    ELSE ParseOk(Num(acc), i)

RECURSIVE ParseValue(_, _)
RECURSIVE ParseMembers(_, _, _)
RECURSIVE ParseElements(_, _, _)

\* After an opening brace or a comma inside an object: key, colon, value,
\* then a comma or the closing brace.
ParseMembers(txt, i, obj) ==
  LET j == SkipWs(txt, i)
      key == ParseString(txt, j + 1, <<>>)
      c == SkipWs(txt, key.i)
      val == ParseValue(txt, c + 1)
      e == SkipWs(txt, val.i)
      member == /\ j <= Len(txt) /\ txt[j] = QUOTE /\ key.ok
                /\ c <= Len(txt) /\ txt[c] = ":" /\ val.ok
                /\ e <= Len(txt)
  IN CASE member /\ txt[e] = "}" -> ParseOk(Put(obj, key.v.s, val.v), e + 1)
       [] member /\ txt[e] = "," -> ParseMembers(txt, e + 1, Put(obj, key.v.s, val.v))
       [] OTHER -> ParseFail

\* After an opening bracket or a comma inside an array: value, then a comma
\* or the closing bracket.
ParseElements(txt, i, acc) ==
  LET val == ParseValue(txt, i)
      e == SkipWs(txt, val.i)
      element == val.ok /\ e <= Len(txt)
  IN CASE element /\ txt[e] = "]" -> ParseOk(Arr(Append(acc, val.v)), e + 1)
       [] element /\ txt[e] = "," -> ParseElements(txt, e + 1, Append(acc, val.v))
       [] OTHER -> ParseFail

ParseValue(txt, i) ==
  LET j == SkipWs(txt, i)
      m == SkipWs(txt, j + 1)
      ch == IF j > Len(txt) THEN "" ELSE txt[j]
  IN CASE ch = "{" /\ m <= Len(txt) /\ txt[m] = "}" -> ParseOk(EmptyObj, m + 1)
       [] ch = "{" -> ParseMembers(txt, j + 1, EmptyObj)
       [] ch = "[" /\ m <= Len(txt) /\ txt[m] = "]" -> ParseOk(Arr(<<>>), m + 1)
       [] ch = "[" -> ParseElements(txt, j + 1, <<>>)
       [] ch = QUOTE -> ParseString(txt, j + 1, <<>>)
       [] ch = "0" /\ j < Len(txt) /\ txt[j + 1] \in DigitSet -> ParseFail
       [] ch \in DigitSet -> ParseNumber(txt, j, 0)
       [] ch = "true" -> ParseOk(Bool(TRUE), j + 1)
       [] ch = "false" -> ParseOk(Bool(FALSE), j + 1)
       [] ch = "null" -> ParseOk(Null, j + 1)
       [] OTHER -> ParseFail

\* JSON.parse(txt): one value, nothing but whitespace after it; ok = FALSE
\* stands for the SyntaxError.
JSONparse(txt) ==
  LET r == ParseValue(txt, 1) IN
  IF r.ok /\ SkipWs(txt, r.i) > Len(txt)
    THEN [ok |-> TRUE, v |-> r.v]
    ELSE [ok |-> FALSE, v |-> Undef]

\* ------------------------------------------------------------------------
\* JSON.stringify
\* ------------------------------------------------------------------------
RECURSIVE NumText(_)
NumText(x) ==
  IF x < 10 THEN <<DIGITS[x + 1]>> ELSE Append(NumText(x \div 10), DIGITS[(x % 10) + 1])

RECURSIVE StrText(_)
StrText(s) ==
  IF s = <<>> THEN <<>>
  ELSE <<IF Head(s) = NL THEN ESC ELSE Head(s)>> \o StrText(Tail(s))

RECURSIVE ValueText(_)
RECURSIVE MembersText(_, _, _)
RECURSIVE ElementsText(_, _, _)

\* The members of an object from position i on; a property whose value is
\* undefined is left out.
MembersText(v, i, first) ==
  IF i > Len(v.k) THEN <<>>
  ELSE IF v.c[i].t = "undef" THEN MembersText(v, i + 1, first)
  ELSE (IF first THEN <<>> ELSE <<",">>)
       \o <<QUOTE>> \o StrText(v.k[i]) \o <<QUOTE, ":">> \o ValueText(v.c[i])
       \o MembersText(v, i + 1, FALSE)

\* The elements of an array from position i on; only indexed elements are
\* written, an expando property is not.
ElementsText(v, i, first) ==
  IF i > Len(v.k) THEN <<>>
  ELSE IF v.k[i] # IDX THEN ElementsText(v, i + 1, first)
  ELSE (IF first THEN <<>> ELSE <<",">>)
       \o (IF v.c[i].t = "undef" THEN <<"null">> ELSE ValueText(v.c[i]))
       \o ElementsText(v, i + 1, FALSE)

ValueText(v) ==
  CASE v.t = "null" -> <<"null">>
    [] v.t = "nan" -> <<"null">>
    [] v.t = "bool" -> <<IF v.n = 1 THEN "true" ELSE "false">>
    [] v.t = "num" -> NumText(v.n)
    [] v.t = "str" -> <<QUOTE>> \o StrText(v.s) \o <<QUOTE>>
    [] v.t = "obj" -> <<"{">> \o MembersText(v, 1, TRUE) \o <<"}">>
    [] v.t = "arr" -> <<"[">> \o ElementsText(v, 1, TRUE) \o <<"]">>
    [] OTHER -> <<>>

JSONstringify(v) == ValueText(v)

\* ------------------------------------------------------------------------
\* String helpers of cleanAndParseJSON
\* ------------------------------------------------------------------------
RECURSIVE Times(_, _)
Times(ch, cnt) == IF cnt <= 0 THEN <<>> ELSE <<ch>> \o Times(ch, cnt - 1)

\* (txt.match(/ch/g) || []).length
Count(txt, ch) == Cardinality({i \in 1..Len(txt) : txt[i] = ch})

\* txt.indexOf(ch) and txt.lastIndexOf(ch), 1-based; 0 when absent.
IndexOf(txt, ch) ==
  IF \E i \in 1..Len(txt) : txt[i] = ch
    THEN CHOOSE i \in 1..Len(txt) : txt[i] = ch /\ \A j \in 1..(i - 1) : txt[j] # ch
    ELSE 0
LastIndexOf(txt, ch) ==
  IF \E i \in 1..Len(txt) : txt[i] = ch
    THEN CHOOSE i \in 1..Len(txt) : txt[i] = ch /\ \A j \in (i + 1)..Len(txt) : txt[j] # ch
    ELSE 0

\* replace(/<fence>tag\s*/g, '') for the tags given; with no tags,
\* replace(/<fence>\s*/g, '').
StripFences(txt, tags) ==
  LET width == IF tags = {} THEN 1 ELSE 2
      starts == {p \in 1..Len(txt) :
                   txt[p] = FENCE /\ (tags = {} \/ (p < Len(txt) /\ txt[p + 1] \in tags))}
      kept == SelectSeq([p \in 1..Len(txt) |-> p],
                        LAMBDA p : \A b \in starts : p < b \/ p >= SkipWs(txt, b + width))
  IN [q \in 1..Len(kept) |-> txt[kept[q]]]

\* trim()
RECURSIVE TrimRight(_)
TrimRight(txt) ==
  IF Len(txt) > 0 /\ txt[Len(txt)] \in WS THEN TrimRight(SubSeq(txt, 1, Len(txt) - 1)) ELSE txt
Trim(txt) == LET t == TrimRight(txt) IN SubSeq(t, SkipWs(t, 1), Len(t))

\* replace(/,(\s*[}\]])/g, '$1'): a comma that only whitespace separates
\* from a closing brace or bracket is dropped.
RemoveTrailingCommas(txt) ==
  LET kept == SelectSeq([p \in 1..Len(txt) |-> p],
                        LAMBDA p : ~(/\ txt[p] = ","
                                     /\ SkipWs(txt, p + 1) <= Len(txt)
                                     /\ txt[SkipWs(txt, p + 1)] \in {"}", "]"}))
  IN [q \in 1..Len(kept) |-> txt[kept[q]]]

\* The tail patterns that recognise a dangling key/value fragment, as
\* automata over the units after the comma.  States: 0 whitespace before the
\* key quote, 1 inside the key, 2 whitespace after the key, 3 the colon,
\* 4 whitespace after the colon, 5 start of the value, 6 inside a partial
\* string value.
\*   current:  /,\s*QUOTE[^QUOTE]*QUOTE?\s*:?\s*(QUOTE[^QUOTE]*)?$/
\*   earlier:  /,\s*QUOTE[^QUOTE]*QUOTE?\s*:?\s*[^,}]*$/
TailClosure(S) == S \cup {q \in 2..5 : \E p \in S : p >= 1 /\ p < q}
TailStep(S, ch, earlier) ==
  TailClosure(
       {0 : p \in {x \in S : x = 0 /\ ch \in WS}}
  \cup {1 : p \in {x \in S : (x = 0 /\ ch = QUOTE) \/ (x = 1 /\ ch # QUOTE)}}
  \cup {2 : p \in {x \in S : (x = 1 /\ ch = QUOTE) \/ (x = 2 /\ ch \in WS)}}
  \cup {4 : p \in {x \in S : (x = 3 /\ ch = ":") \/ (x = 4 /\ ch \in WS)}}
  \cup {5 : p \in {x \in S : x = 5 /\ earlier /\ ch \notin {",", "}"}}}
  \cup {6 : p \in {x \in S : ~earlier /\ ((x = 5 /\ ch = QUOTE) \/ (x = 6 /\ ch # QUOTE))}})

RECURSIVE TailMatches(_, _, _, _)
TailMatches(txt, i, S, earlier) ==
  IF S = {} THEN FALSE
  ELSE IF i > Len(txt) THEN S \cap (1..6) # {}
  ELSE TailMatches(txt, i + 1, TailStep(S, txt[i], earlier), earlier)

\* replace(pattern, ''): the leftmost comma from which the pattern reaches
\* the end of the text is cut off together with everything after it.
StripDangling(txt, earlier) ==
  LET hits == {i \in 1..Len(txt) : txt[i] = "," /\ TailMatches(txt, i + 1, {0}, earlier)} IN
  IF hits = {} THEN txt
  ELSE SubSeq(txt, 1, (CHOOSE i \in hits : \A j \in hits : i <= j) - 1)

\* replace(/,\s*$/, '')
StripLastComma(txt) ==
  LET hits == {i \in 1..Len(txt) : txt[i] = "," /\ \A j \in (i + 1)..Len(txt) : txt[j] \in WS} IN
  IF hits = {} THEN txt
  ELSE SubSeq(txt, 1, (CHOOSE i \in hits : \A j \in hits : i <= j) - 1)

\* ------------------------------------------------------------------------
\* cleanAndParseJSON (current handler)
\* ------------------------------------------------------------------------
\* The outcome of a run: ok = FALSE is the exception that leaves the
\* function; step is the parse attempt that returned (5: none); parsed is
\* the text that attempt was given (the last text tried when all threw).
Outcome(r, step, parsed) ==
  [ok |-> r.ok, v |-> r.v, step |-> IF r.ok THEN step ELSE 5, parsed |-> parsed]

Cleaned(jsonStr) == Trim(StripFences(StripFences(jsonStr, TAGS), {}))

\* The text the final attempt parses: the dangling fragment removed, then
\* one closing bracket per unmatched opening bracket, then one closing
\* brace per unmatched opening brace; the counts are taken before the
\* fragment is removed.
Balanced(cleaned) ==
  LET openBraces == Count(cleaned, "{")
      closeBraces == Count(cleaned, "}")
      openBrackets == Count(cleaned, "[")
      closeBrackets == Count(cleaned, "]")
  IN StripDangling(cleaned, FALSE)
       \o Times("]", openBrackets - closeBrackets)
       \o Times("}", openBraces - closeBraces)

\* Faulty variant that C5 must tell apart: the last attempt swallows its
\* exception and hands back an empty object.
cleanAndParseJSONLenient(jsonStr) ==
  LET cleaned == Cleaned(jsonStr)
      first == JSONparse(cleaned)
      cleaned2 == RemoveTrailingCommas(cleaned)
      second == JSONparse(cleaned2)
      firstBrace == IndexOf(cleaned2, "{")
      lastBrace == LastIndexOf(cleaned2, "}")
      extracted == SubSeq(cleaned2, firstBrace, lastBrace)
      third == JSONparse(extracted)
      fixedJson == Balanced(cleaned2)
      last == JSONparse(fixedJson)
  IN IF first.ok THEN Outcome(first, 1, cleaned)
     ELSE IF second.ok THEN Outcome(second, 2, cleaned2)
     ELSE IF firstBrace # 0 /\ lastBrace > firstBrace /\ third.ok
       THEN Outcome(third, 3, extracted)
     ELSE IF last.ok THEN Outcome(last, 4, fixedJson)
     ELSE Outcome([ok |-> TRUE, v |-> EmptyObj], 4, fixedJson)

\* Faulty variant that C21 must tell apart: the text is parsed as it is,
\* fences included.
cleanAndParseJSONDirect(jsonStr) == Outcome(JSONparse(jsonStr), 1, jsonStr)

cleanAndParseJSON(jsonStr) ==
  LET cleaned == Cleaned(jsonStr)
      first == JSONparse(cleaned)
      cleaned2 == RemoveTrailingCommas(cleaned)
      second == JSONparse(cleaned2)
      firstBrace == IndexOf(cleaned2, "{")
      lastBrace == LastIndexOf(cleaned2, "}")
      extracted == SubSeq(cleaned2, firstBrace, lastBrace)
      third == JSONparse(extracted)
      fixedJson == Balanced(cleaned2)
  IN IF first.ok THEN Outcome(first, 1, cleaned)
     ELSE IF second.ok THEN Outcome(second, 2, cleaned2)
     ELSE IF firstBrace # 0 /\ lastBrace > firstBrace /\ third.ok
       THEN Outcome(third, 3, extracted)
     ELSE Outcome(JSONparse(fixedJson), 4, fixedJson)

\* ------------------------------------------------------------------------
\* cleanAndParseJSON (earlier handler in the same file)
\* ------------------------------------------------------------------------
\* replace(/\n/g, '\\n'): every line break becomes the two-character escape.
EscapeBreaks(txt) == [i \in 1..Len(txt) |-> IF txt[i] = NL THEN ESC ELSE txt[i]]

\* The end of the first top-level object: the first closing brace at which
\* the running brace count (up on an opening, down on a closing brace) is
\* back at zero; 0 when there is none.
LastValidIndex(txt) ==
  LET braceCount(i) == Cardinality({j \in 1..i : txt[j] = "{"}) - Cardinality({j \in 1..i : txt[j] = "}"})
      hits == {i \in 1..Len(txt) : txt[i] = "}" /\ braceCount(i) = 0}
  IN IF hits = {} THEN 0 ELSE CHOOSE i \in hits : \A j \in hits : i <= j

RECURSIVE CloseBraces(_, _)
CloseBraces(txt, missing) ==
  IF missing <= 0 THEN txt
  ELSE CloseBraces(Append(StripDangling(txt, TRUE), "}"), missing - 1)

RECURSIVE CloseBrackets(_, _)
CloseBrackets(txt, missing) ==
  IF missing <= 0 THEN txt
  ELSE CloseBrackets(Append(StripLastComma(txt), "]"), missing - 1)

cleanAndParseJSONEarlier(jsonStr) ==
  LET stripped == StripFences(StripFences(jsonStr, {"json"}), {})
      cleaned == EscapeBreaks(RemoveTrailingCommas(stripped))
      first == JSONparse(cleaned)
      lastValidIndex == LastValidIndex(cleaned)
      truncatedJson == SubSeq(cleaned, 1, lastValidIndex)
      second == JSONparse(truncatedJson)
      braced == CloseBraces(cleaned, Count(cleaned, "{") - Count(cleaned, "}"))
      fixedJson == CloseBrackets(braced, Count(braced, "[") - Count(braced, "]"))
  IN IF first.ok THEN Outcome(first, 1, cleaned)
     ELSE IF lastValidIndex = 0 THEN Outcome(first, 5, cleaned)
     ELSE IF second.ok THEN Outcome(second, 2, truncatedJson)
     ELSE Outcome(JSONparse(fixedJson), 3, fixedJson)

\* ------------------------------------------------------------------------
\* Handler constants
\* ------------------------------------------------------------------------
MAX_FILE_SIZE_MB == 100
\* Faulty variant that C9 must tell apart: the list also admits QuickTime.
AllowedWithQuickTime ==
  {"video/mp4", "video/webm", "audio/webm", "audio/mp4", "audio/m4a", "audio/mpeg", "audio/wav",
   "video/quicktime"}
ALLOWED_MIME_TYPES ==
  {"video/mp4", "video/webm", "audio/webm", "audio/mp4", "audio/m4a", "audio/mpeg", "audio/wav"}
BytesPerMB == 1024 * 1024

\* ------------------------------------------------------------------------
\* Result normaliser
\* ------------------------------------------------------------------------
Key(name) == <<name>>
Text(name) == Str(<<name>>)
GROUPS == <<"voiceModulation", "thoughtStructure", "vocabulary">>
LEAVES ==
  [voiceModulation |-> <<"voiceClarity", "tonalVariation", "paceAndPauses", "fillersAndVerbalHabits">>,
   thoughtStructure |-> <<"purposeArticulation", "logicalFlow", "signposting", "closureStrength">>,
   vocabulary |-> <<"sentenceEconomy", "specificity", "redundancyControl", "confidenceOfPhrasing", "grammar">>]
DefaultFeedback == Text("No specific feedback available.")
DefaultLeaf == Obj(<<Key("score"), Key("feedback")>>, <<Num(5), DefaultFeedback>>)
\* Faulty variant that C16 must tell apart: the default group has no score.
DefaultGroupUnscored == EmptyObj
DefaultGroup == Obj(<<Key("score")>>, <<Num(5)>>)
\* Faulty variant that C18 must tell apart: another default level.
DefaultLevelBeginner == Text("Beginner")
DefaultLevel == Text("Intermediate")
DefaultSummary == Text("Analysis completed. Please review the detailed feedback below.")

\* The result of a statement sequence: ok = FALSE when it threw.
Threw == [ok |-> FALSE, v |-> Undef]
Fine(v) == [ok |-> TRUE, v |-> v]

\* target[key] = x in strict mode (an ES module): a TypeError when target
\* is a primitive, undefined or null.
Assign(target, key, x) ==
  IF target.t \in {"obj", "arr"} THEN Fine(Put(target, key, x)) ELSE Threw

\* typeof v === 'number'
IsNumber(v) == v.t \in {"num", "nan", "inf"}

\* ensureScoreObject(obj, key); the result is obj after the call.
ensureScoreObject(obj, key) ==
  LET s1 == IF ~Truthy(Get(obj, key)) THEN Assign(obj, key, DefaultLeaf) ELSE Fine(obj) IN
  IF ~s1.ok THEN Threw
  ELSE LET leaf == Get(s1.v, key) IN
    IF ~IsNumber(Get(leaf, Key("score")))
      THEN LET s2 == Assign(leaf, Key("score"), Num(5)) IN
           IF s2.ok THEN Fine(Put(s1.v, key, s2.v)) ELSE Threw
      ELSE s1

RECURSIVE EnsureLeaves(_, _, _)
EnsureLeaves(group, leaves, i) ==
  IF i > Len(leaves) THEN Fine(group)
  ELSE LET r == ensureScoreObject(group, Key(leaves[i])) IN
       IF r.ok THEN EnsureLeaves(r.v, leaves, i + 1) ELSE Threw

\* if (!analysis.g) analysis.g = { score: 5 }; then ensureScoreObject for
\* each leaf of the group.
EnsureGroup(analysis, g) ==
  LET a1 == IF ~Truthy(Get(analysis, Key(g))) THEN Put(analysis, Key(g), DefaultGroup) ELSE analysis
      r == EnsureLeaves(Get(a1, Key(g)), LEAVES[g], 1)
  IN IF r.ok THEN Fine(Put(a1, Key(g), r.v)) ELSE Threw

RECURSIVE EnsureGroups(_, _)
EnsureGroups(analysis, i) ==
  IF i > Len(GROUPS) THEN Fine(analysis)
  ELSE LET r == EnsureGroup(analysis, GROUPS[i]) IN
       IF r.ok THEN EnsureGroups(r.v, i + 1) ELSE Threw

\* Faulty variant that C7 must tell apart: the field is always overwritten.
FillAlways(analysis, key, x) == Put(analysis, key, x)

\* if (!analysis.key) analysis.key = x
FillIfFalsy(analysis, key, x) ==
  IF ~Truthy(Get(analysis, key)) THEN Put(analysis, key, x) ELSE analysis

\* Durations and start times are in tenths of a second, confidences in
\* hundredths (Absent: the field is missing).
Absent == -1

\* Faulty variant that C19 must tell apart: the rate is cut off, not rounded.
WordsPerMinuteFloored(wordCount, duration) ==
  IF duration = 0 THEN (IF wordCount = 0 THEN NaN ELSE [NaN EXCEPT !.t = "inf"])
  ELSE Num((600 * wordCount) \div duration)

\* Math.round((words.length / duration) * 60)
WordsPerMinute(wordCount, duration) ==
  IF duration = 0 THEN (IF wordCount = 0 THEN NaN ELSE [NaN EXCEPT !.t = "inf"])
  ELSE Num((1200 * wordCount + duration) \div (2 * duration))

\* Math.round(duration)
RoundSeconds(duration) == Num((duration + 5) \div 10)

\* padStart(2, '0')
PadStart2(txt) == IF Len(txt) < 2 THEN <<"0">> \o txt ELSE txt

\* `${Math.floor(t / 60)}:${(t % 60).toFixed(0).padStart(2, '0')}`
Timestamp(start) ==
  Str(NumText(start \div 600) \o <<":">> \o PadStart2(NumText(((start % 600) + 5) \div 10)))

\* `Unclear pronunciation (${(confidence * 100).toFixed(0)}% confidence)`
Issue(confidence) ==
  Str(<<"Unclear pronunciation (">> \o NumText(confidence) \o <<"% confidence)">>)

Mispronunciation(w) ==
  Obj(<<Key("word"), Key("timestamp"), Key("issue"), Key("correctPronunciation")>>,
      <<Text(w.word), Timestamp(w.timestamp), Issue(w.confidence), Text(w.word)>>)

MaxMispronunciations == 10

\* Faulty variant that C20 must tell apart: the list is not capped.
FromAllUnclearWords(unclearWords) ==
  Arr([i \in 1..Len(unclearWords) |-> Mispronunciation(unclearWords[i])])

\* unclearWords.slice(0, 10).map(...)
FromUnclearWords(unclearWords) ==
  Arr([i \in 1..(IF Len(unclearWords) < MaxMispronunciations THEN Len(unclearWords) ELSE MaxMispronunciations)
        |-> Mispronunciation(unclearWords[i])])

\* v.length
LengthOf(v) ==
  CASE v.t = "arr" -> Num(Cardinality({i \in 1..Len(v.k) : v.k[i] = IDX}))
    [] v.t = "str" -> Num(Len(v.s))
    [] OTHER -> Get(v, Key("length"))

\* The words whose confidence is truthy and below 0.7.
RECURSIVE UnclearWords(_, _)
UnclearWords(words, i) ==
  IF i > Len(words) THEN <<>>
  ELSE (IF words[i].confidence # Absent /\ words[i].confidence # 0 /\ words[i].confidence < 70
          THEN <<[word |-> words[i].word, timestamp |-> words[i].start, confidence |-> words[i].confidence]>>
          ELSE <<>>)
       \o UnclearWords(words, i + 1)

RECURSIVE JoinWords(_, _)
JoinWords(words, i) ==
  IF i > Len(words) THEN <<>>
  ELSE (IF i > 1 THEN <<SP>> ELSE <<>>) \o <<words[i].word>> \o JoinWords(words, i + 1)

\* The block between the parse and the response: defaults for the scalar
\* fields, the three groups and their leaves, the transcription metadata
\* and the mispronunciation list.
Normalize(parsed, td) ==
  LET a1 == FillIfFalsy(parsed, Key("proficiencyLevel"), DefaultLevel)
      a2 == FillIfFalsy(a1, Key("summary"), DefaultSummary)
      r == EnsureGroups(a2, 1)
      a3 == r.v
      a4 == FillIfFalsy(a3, Key("wordsPerMinute"), WordsPerMinute(Len(td.words), td.duration))
      a5 == FillIfFalsy(a4, Key("totalWords"), Num(Len(td.words)))
      a6 == FillIfFalsy(a5, Key("durationSeconds"), RoundSeconds(td.duration))
      a7 == FillIfFalsy(a6, Key("fullTranscript"), Str(JoinWords(td.words, 1)))
      m == Get(a7, Key("mispronunciations"))
      a8 == IF ~Truthy(m) \/ LengthOf(m) = Num(0)
              THEN Put(a7, Key("mispronunciations"), FromUnclearWords(td.unclearWords))
              ELSE a7
  IN IF r.ok THEN Fine(a8) ELSE Threw

\* The same block in the earlier handler: the scalar defaults, the groups
\* and their leaves; there is no transcription to take metadata from.
NormalizeEarlier(parsed) ==
  LET a1 == FillIfFalsy(parsed, Key("proficiencyLevel"), DefaultLevel)
      a2 == FillIfFalsy(a1, Key("summary"), DefaultSummary)
  IN EnsureGroups(a2, 1)

\* What the caller reads back from JSON.stringify(v): an expando property
\* of an array and a property holding undefined are gone, NaN and Infinity
\* are null.
RECURSIVE ToJSON(_)
ToJSON(v) ==
  CASE v.t \in {"nan", "inf", "undef"} -> Null
    [] v.t = "obj" ->
         LET keep == SelectSeq([i \in 1..Len(v.k) |-> i], LAMBDA i : v.c[i].t # "undef") IN
         Obj([j \in 1..Len(keep) |-> v.k[keep[j]]], [j \in 1..Len(keep) |-> ToJSON(v.c[keep[j]])])
    [] v.t = "arr" ->
         LET keep == SelectSeq([i \in 1..Len(v.k) |-> i], LAMBDA i : v.k[i] = IDX) IN
         Arr([j \in 1..Len(keep) |-> ToJSON(v.c[keep[j]])])
    [] OTHER -> v

\* ------------------------------------------------------------------------
\* The request handler: state
\* ------------------------------------------------------------------------
VARIABLES
  pc,        \* where the handler is: idle, auth, transcribing, analyzing, done
  env,       \* the deployment: the handler that serves, the secrets configured
  req,       \* the request being served
  calls,     \* upstream calls made for the request
  td,        \* transcriptionData of the request and the unclear words found in it
  upstream,  \* the failure an upstream service answered with, if any
  ladder,    \* the model text of the request, what cleanAndParseJSON was given and did
  response,  \* the response sent
  prior,     \* the response to the same request when it was sent before
  session,   \* what auth.getUser() answered for the request
  pin,       \* repair ladder alone: the input text and how it was made
  pout,      \* repair ladder alone: the outcome of the run
  ppc,       \* repair ladder alone: input, done
  rows,      \* speech_analyses: the rows of the table
  last,      \* speech_analyses: the last statement run and the rows it touched
  cors,      \* CORS: the Origin of a request and the header it is answered with
  page,      \* the page: its state, the uploader's selected file, the last toast
  tasks,     \* the page: the analyses started, each with the point it has reached
  history    \* the page: the saved analyses and the list the history shows

vars ==
  <<pc, env, req, calls, td, upstream, ladder, response, prior, session, pin, pout, ppc, rows, last,
    cors, page, tasks, history>>
handlerVars == <<pc, env, req, calls, td, upstream, ladder, response, prior, session>>
ladderVars == <<pin, pout, ppc>>
rlsVars == <<rows, last>>
corsVars == <<cors>>
pageVars == <<page, tasks, history>>

\* ------------------------------------------------------------------------
\* Bounds and inputs
\* ------------------------------------------------------------------------
MaxWords == 3
MaxDepth == 2
SmallLength == 8
MaxRows == 3
MaxLabels == 3
MaxAnalyses == 2

\* The longest payload whose estimate does not exceed the ceiling.
BoundaryLength == (MAX_FILE_SIZE_MB * BytesPerMB * 4) \div 3

AudioInputs ==
  {[isString |-> FALSE, length |-> 0, base64 |-> "ok"],
   [isString |-> TRUE, length |-> 0, base64 |-> "ok"]}
  \cup [isString : {TRUE}, length : {SmallLength}, base64 : {"ok", "badchars", "undecodable"}]
  \cup [isString : {TRUE},
        length : {BoundaryLength, BoundaryLength + 1, 2 * BoundaryLength},
        base64 : {"ok"}]

MimeInputs ==
  [isString : {TRUE}, text : {"video/mp4", "video/quicktime", "video/x-msvideo", ""}]
  \cup {[isString |-> FALSE, text |-> ""]}

Requests ==
  [method : {"OPTIONS", "POST"}, authorization : BOOLEAN, json : {TRUE},
   audio : AudioInputs, mimeType : MimeInputs]
  \cup [method : {"POST"}, authorization : {TRUE}, json : {FALSE},
        audio : {[isString |-> FALSE, length |-> 0, base64 |-> "ok"]},
        mimeType : {[isString |-> FALSE, text |-> ""]}]

NoRequest ==
  [method |-> "", authorization |-> FALSE, json |-> FALSE,
   audio |-> [isString |-> FALSE, length |-> 0, base64 |-> "ok"],
   mimeType |-> [isString |-> FALSE, text |-> ""]]

\* Transcribed words: n words that follow one of a few patterns; one list
\* has more unclear words than the mispronunciation list takes.
WordPatterns == {"unclear", "clear", "mixed", "unscored"}
WordAt(pattern, i) ==
  CASE pattern = "unclear" -> [word |-> "um", start |-> 596 * i, confidence |-> 50]
    [] pattern = "clear" -> [word |-> "so", start |-> 10 * i, confidence |-> 70]
    [] pattern = "mixed" -> [word |-> "er", start |-> 254 * i, confidence |-> IF i % 2 = 1 THEN 69 ELSE 0]
    [] OTHER -> [word |-> "ok", start |-> 5 * i, confidence |-> Absent]
WordLists ==
  {[i \in 1..n |-> WordAt(p, i)] : n \in 0..MaxWords, p \in WordPatterns}
  \cup {[i \in 1..(MaxMispronunciations + 1) |-> WordAt("unclear", i)]}
Durations == {Absent, 0, 12, 16, 25, 600}
NoTranscription == [duration |-> Absent, words |-> <<>>, unclearWords |-> <<>>]
TranscriptionData == [duration : Durations, words : WordLists]

ErrorTexts == {"Temporarily unavailable", "Rate limit reached"}
ErrorStatuses == {429, 500, 503}
UpstreamFailures ==
  {[kind |-> "network", status |-> 0, text |-> ""]}
  \cup [kind : {"http"}, status : ErrorStatuses, text : ErrorTexts]

NoFailure == [call |-> "none", kind |-> "none", status |-> 0, text |-> ""]
NoLadder ==
  [ran |-> FALSE, content |-> <<>>, input |-> <<>>, ok |-> FALSE, v |-> Undef, step |-> 0, parsed |-> <<>>]
\* A run of cleanAndParseJSON: the text it was extracted from, the text it
\* was given, what it did.
Ran(content, input, run) ==
  [ran |-> TRUE, content |-> content, input |-> input,
   ok |-> run.ok, v |-> run.v, step |-> run.step, parsed |-> run.parsed]
NoResponse == [status |-> 0, body |-> Undef]
NoSession == [asked |-> FALSE, error |-> FALSE, user |-> FALSE]
NoStatement == [cmd |-> "none", uid |-> "", ids |-> {}, ok |-> TRUE, rows |-> {}]
NoCors == [SUPABASE_URL |-> <<>>, served |-> FALSE, origin |-> <<>>, header |-> <<>>]
NoFile == [text |-> "", top |-> ""]
NoPage ==
  [variant |-> "none", isProcessing |-> FALSE, isComplete |-> FALSE, analysisResults |-> Null,
   historyRefresh |-> 0, selectedFile |-> NoFile, toast |-> "none"]
NoHistory == [rows |-> <<>>, analyses |-> <<>>, fetched |-> -1]

\* The parts of the state that a specification of another part leaves in
\* their initial value.
CorsOff == cors = NoCors
PageOff == page = NoPage /\ tasks = <<>> /\ history = NoHistory

\* ------------------------------------------------------------------------
\* Model output: the texts the analysis call may answer with
\* ------------------------------------------------------------------------
Obj1(k1, v1) == Obj(<<Key(k1)>>, <<v1>>)
Obj2(k1, v1, k2, v2) == Obj(<<Key(k1), Key(k2)>>, <<v1, v2>>)

LeafForms ==
  {Null, Text("good"), Num(7), Num(0), Bool(TRUE), Arr(<<>>),
   Obj2("score", Num(8), "feedback", Text("ok")),
   Obj1("score", Text("high")), Obj1("feedback", Text("ok")),
   Obj1("score", Num(15)), Obj1("score", Num(0))}

GroupForms(g) ==
  {Null, Text("good"), Num(7), Num(0), Bool(TRUE), Arr(<<>>), EmptyObj,
   Obj1("score", Num(7)), Obj1("score", Text("high"))}
  \cup {Obj2("score", Num(7), LEAVES[g][i], lf) : i \in 1..Len(LEAVES[g]), lf \in LeafForms}

GroupVariants ==
  {EmptyObj} \cup UNION {{Obj1(GROUPS[i], gf) : gf \in GroupForms(GROUPS[i])} : i \in 1..Len(GROUPS)}

\* An object from optional members: the members whose value is not
\* undefined, in the order given.
ObjOf(ks, cs) ==
  LET keep == SelectSeq([i \in 1..Len(ks) |-> i], LAMBDA i : cs[i].t # "undef") IN
  Obj([j \in 1..Len(keep) |-> Key(ks[keep[j]])], [j \in 1..Len(keep) |-> cs[keep[j]]])

ScalarVariants ==
  {ObjOf(<<"proficiencyLevel", "summary", "totalWords", "durationSeconds", "wordsPerMinute", "mispronunciations">>,
         <<ls[1], ls[2], tw, ds, wpm, mis>>) :
     ls \in {<<Undef, Undef>>, <<Text("Advanced"), Text("Well done")>>},
     tw \in {Undef, Num(0), Num(5)}, ds \in {Undef, Num(9)}, wpm \in {Undef, Num(99)},
     mis \in {Undef, Arr(<<>>), Arr(<<Obj1("word", Text("nuclear"))>>)}}
  \cup {Obj2("proficiencyLevel", Str(<<>>), "summary", Str(<<>>)),
        Obj2("proficiencyLevel", Text("Advanced"), "summary", Str(<<>>)),
        Obj1("wordsPerMinute", Num(0))}

AnalysisObjects == GroupVariants \cup ScalarVariants

Fenced(txt, tag) == <<FENCE, tag, NL>> \o txt \o <<NL, FENCE>>
\* Markdown fencing around a text: the fence with a tag or none, a line
\* break or none between fence and text, whitespace or none around it all.
Wrapped(txt, tag, sep, pad) == pad \o <<FENCE>> \o tag \o sep \o txt \o sep \o <<FENCE>> \o pad
FenceTags == {<<>>} \cup {<<tag>> : tag \in TAGS}
InProse(txt) == <<"Here", SP, "it", SP, "is:", NL>> \o txt \o <<NL, "Done.">>
Cut(txt, n) == SubSeq(txt, 1, n)
Sample == JSONstringify(Obj2("summary", Text("fine"), "vocabulary", Obj1("score", Num(6))))
\* A text whose first closing brace is followed by a further member: cut
\* after that brace it has a truncated tail.
Tailed == JSONstringify(Obj2("vocabulary", Obj1("score", Num(6)), "summary", Text("fine")))

Contents ==
  {JSONstringify(o) : o \in AnalysisObjects}
  \cup {Fenced(Sample, "json"), Fenced(Sample, "JSON"), InProse(Sample), InProse(Fenced(Sample, "json"))}
  \cup {Cut(Sample, n) : n \in 0..(Len(Sample) - 1)}
  \cup {Cut(Sample, n) \o <<"}">> : n \in 1..(Len(Sample) - 1)}
  \cup {Cut(Tailed, n) : n \in (IndexOf(Tailed, "}") + 1)..(Len(Tailed) - 1)}

\* ------------------------------------------------------------------------
\* The request handler: responses
\* ------------------------------------------------------------------------
\* The body of the outer catch: { error, stack, type }.
ErrorBody(message, type) ==
  Obj(<<Key("error"), Key("stack"), Key("type")>>, <<Str(message), Text("<stack>"), Text(type)>>)
Failure(message, type) == [status |-> 500, body |-> ErrorBody(message, type)]
\* The outer catch answers: the current handler with { error, stack, type },
\* the earlier handler with { error } alone.
Caught(e, message, type) ==
  IF e.handler = "earlier"
    THEN [status |-> 500, body |-> Obj(<<Key("error")>>, <<Str(message)>>)]
    ELSE Failure(message, type)
Unauthorized(message) == [status |-> 401, body |-> Obj1("error", Text(message))]
Success(analysis) == [status |-> 200, body |-> ToJSON(analysis)]

MsgNoAudio == <<"No audio/video data provided">>
MsgMimeRequired == <<"MIME type is required">>
MsgInvalidType(mimeType) == <<"Invalid file type ", mimeType, ". Supported types: <list>">>
MsgTooLarge == <<"File too large (<size>MB). Maximum size is ">> \o NumText(MAX_FILE_SIZE_MB) \o <<"MB">>
MsgBase64 == <<"Invalid base64 data format">>
MsgNoLovableKey == <<"LOVABLE_API_KEY not configured">>
MsgNoGroqKey == <<"GROQ_API_KEY not configured. Please add it to your Supabase secrets.">>
MsgTranscription(errorText) == <<"Transcription failed: ", errorText>>
MsgAnalyze(errorText) == <<"Failed to analyze speech: ", errorText>>
MsgUnavailable == <<"The AI service is temporarily unavailable. Please try again in a few minutes.">>
MsgRateLimit == <<"Too many requests. Please wait a moment and try again.">>
MsgAIError(status) == <<"AI service error (">> \o NumText(status) \o <<"). Please try again.">>
MsgProcess == <<"Failed to process analysis results. The AI response was incomplete. Please try again.">>
MsgRuntime == <<"<runtime error>">>

\* Faulty variant that C8 must tell apart: the encoded length is compared
\* with the ceiling, without the 3/4 factor.
TooLargeEncoded(length) == length > MAX_FILE_SIZE_MB * BytesPerMB

\* estimatedSizeMB > MAX_FILE_SIZE_MB, where estimatedSizeMB is
\* (audio.length * 3) / 4 / (1024 * 1024); the divisions are exact up to
\* the comparison, so the test is on whole numbers.
TooLarge(length) == length * 3 > MAX_FILE_SIZE_MB * BytesPerMB * 4

\* The input validation and the secrets check, in the order of the code:
\* the first failing check decides the error; <<>> when all pass.  The
\* earlier handler needs no transcription key and does not decode the
\* payload.
ValidationError(r, e) ==
  IF ~r.json THEN MsgRuntime
  ELSE IF ~r.audio.isString \/ r.audio.length = 0 THEN MsgNoAudio
  ELSE IF ~r.mimeType.isString \/ r.mimeType.text = "" THEN MsgMimeRequired
  ELSE IF r.mimeType.text \notin ALLOWED_MIME_TYPES THEN MsgInvalidType(r.mimeType.text)
  ELSE IF TooLarge(r.audio.length) THEN MsgTooLarge
  ELSE IF r.audio.base64 = "badchars" THEN MsgBase64
  ELSE IF ~e.LOVABLE_API_KEY THEN MsgNoLovableKey
  ELSE IF e.handler = "current" /\ ~e.GROQ_API_KEY THEN MsgNoGroqKey
  ELSE IF e.handler = "current" /\ r.audio.base64 = "undecodable" THEN MsgRuntime
  ELSE <<>>

ErrorType(message) ==
  IF message = MsgRuntime THEN "TypeError" ELSE "Error"

\* Faulty variant that C13 must tell apart: a missing user is let through.
AuthFailedOnErrorOnly(result) == result.error

\* authError || !user, for an answer of auth.getUser() with an error or
\* none and a user or none.
AuthFailed(result) == result.error \/ ~result.user

\* if (!analysisResponse.ok): outage first, then rate limit, then the rest.
AnalysisError(status, errorText) ==
  IF status = 503 \/ errorText = "Temporarily unavailable" THEN MsgUnavailable
  ELSE IF status = 429 THEN MsgRateLimit
  ELSE MsgAIError(status)

\* Faulty variant that C24 must tell apart: the whole model text is handed
\* to cleanAndParseJSON.
JsonMatchWhole(content) == content

\* content.match(/\{[\s\S]*\}/): from the first opening brace to the last
\* closing brace; <<>> when there is no match.
JsonMatch(content) ==
  LET firstBrace == IndexOf(content, "{")
      lastBrace == LastIndexOf(content, "}")
  IN IF firstBrace # 0 /\ lastBrace > firstBrace THEN SubSeq(content, firstBrace, lastBrace) ELSE <<>>

\* ------------------------------------------------------------------------
\* The request handler: steps (one per stretch between two awaits)
\* ------------------------------------------------------------------------
Init ==
  /\ pc = "idle"
  /\ env \in [handler : {"current", "earlier"}, LOVABLE_API_KEY : BOOLEAN, GROQ_API_KEY : BOOLEAN]
  /\ req = NoRequest
  /\ calls = [transcription |-> 0, analysis |-> 0]
  /\ td = NoTranscription
  /\ upstream = NoFailure
  /\ ladder = NoLadder
  /\ response = NoResponse
  /\ prior = NoResponse
  /\ session = NoSession
  /\ pin = [text |-> <<>>, kind |-> "none", base |-> <<>>, variant |-> "none", before |-> Undef]
  /\ pout = NoLadder
  /\ ppc = "off"
  /\ rows = {}
  /\ last = NoStatement
  /\ CorsOff
  /\ PageOff

\* A request arrives: preflight, missing Authorization header, or on to
\* getUser.
Receive(r) ==
  /\ pc = "idle"
  /\ prior.status # 0 => r = req
  /\ req' = r
  /\ calls' = [transcription |-> 0, analysis |-> 0]
  /\ td' = NoTranscription
  /\ upstream' = NoFailure
  /\ ladder' = NoLadder
  /\ session' = NoSession
  /\ IF r.method = "OPTIONS"
       THEN pc' = "done" /\ response' = [status |-> 200, body |-> Null]
     ELSE IF ~r.authorization
       THEN pc' = "done" /\ response' = Unauthorized("Unauthorized - Please log in to use this feature")
     ELSE pc' = "auth" /\ response' = NoResponse
  /\ UNCHANGED <<env, prior>>

\* getUser answers: 401 on an error or without a user; otherwise the body
\* is read and validated and the first upstream call is sent (current
\* handler: transcription; earlier handler: analysis).
GetUserReturns(result) ==
  /\ pc = "auth"
  /\ session' = [asked |-> TRUE, error |-> result.error, user |-> result.user]
  /\ LET message == ValidationError(req, env) IN
     IF AuthFailed(result)
       THEN pc' = "done" /\ calls' = calls
            /\ response' = Unauthorized("Unauthorized - Invalid or expired session")
     ELSE IF message # <<>>
       THEN pc' = "done" /\ calls' = calls
            /\ response' = Caught(env, message, ErrorType(message))
     ELSE IF env.handler = "earlier"
       THEN pc' = "analyzing" /\ response' = response
            /\ calls' = [calls EXCEPT !.analysis = @ + 1]
     ELSE pc' = "transcribing" /\ response' = response
          /\ calls' = [calls EXCEPT !.transcription = @ + 1]
  /\ UNCHANGED <<env, req, td, upstream, ladder, prior>>

\* Faulty variant that C12 must tell apart: a failed transcription is
\* followed by the analysis call.
TranscriptionFailsThenAnalyses(f) ==
  /\ pc = "transcribing"
  /\ pc' = "analyzing"
  /\ response' = response
  /\ calls' = [calls EXCEPT !.analysis = @ + 1]
  /\ upstream' = [call |-> "transcription", kind |-> f.kind, status |-> f.status, text |-> f.text]
  /\ UNCHANGED <<env, req, td, ladder, prior, session>>

\* The transcription call fails: no classification, the body is passed on.
TranscriptionFails(f) ==
  /\ pc = "transcribing"
  /\ pc' = "done"
  /\ response' = IF f.kind = "network" THEN Caught(env, MsgRuntime, "TypeError")
                 ELSE Caught(env, MsgTranscription(f.text), "Error")
  /\ upstream' = [call |-> "transcription", kind |-> f.kind, status |-> f.status, text |-> f.text]
  /\ UNCHANGED <<env, req, calls, td, ladder, prior, session>>

\* The transcription call succeeds: the unclear words are collected, the
\* prompt is built from the transcript (duration.toFixed throws without a
\* duration) and the analysis call is sent.
TranscriptionReturns(data) ==
  /\ pc = "transcribing"
  /\ td' = [duration |-> data.duration, words |-> data.words, unclearWords |-> UnclearWords(data.words, 1)]
  /\ IF data.duration = Absent
       THEN pc' = "done" /\ calls' = calls /\ response' = Caught(env, MsgRuntime, "TypeError")
       ELSE pc' = "analyzing" /\ response' = response
            /\ calls' = [calls EXCEPT !.analysis = @ + 1]
  /\ UNCHANGED <<env, req, upstream, ladder, prior, session>>

\* The analysis call fails: the current handler classifies by status and
\* body, the earlier handler passes the body on.
AnalysisFails(f) ==
  /\ pc = "analyzing"
  /\ pc' = "done"
  /\ response' = IF f.kind = "network" THEN Caught(env, MsgRuntime, "TypeError")
                 ELSE IF env.handler = "earlier" THEN Caught(env, MsgAnalyze(f.text), "Error")
                 ELSE Caught(env, AnalysisError(f.status, f.text), "Error")
  /\ upstream' = [call |-> "analysis", kind |-> f.kind, status |-> f.status, text |-> f.text]
  /\ UNCHANGED <<env, req, calls, td, ladder, prior, session>>

\* The analysis call succeeds with the model text: extraction, repair
\* ladder, normalisation, response.  Every exception of that block is
\* rethrown as the processing error.
AnalysisReturns(content) ==
  /\ pc = "analyzing"
  /\ pc' = "done"
  /\ \E jsonMatch \in {JsonMatch(content)} :
       IF jsonMatch = <<>>
         THEN /\ ladder' = [NoLadder EXCEPT !.content = content]
              /\ response' = Caught(env, MsgProcess, "Error")
         ELSE \E run \in {IF env.handler = "earlier" THEN cleanAndParseJSONEarlier(jsonMatch)
                          ELSE cleanAndParseJSON(jsonMatch)} :
                \E normal \in {IF env.handler = "earlier" THEN NormalizeEarlier(run.v)
                               ELSE Normalize(run.v, td)} :
                  /\ ladder' = Ran(content, jsonMatch, run)
                  /\ response' = IF run.ok /\ normal.ok THEN Success(normal.v)
                                 ELSE Caught(env, MsgProcess, "Error")
  /\ UNCHANGED <<env, req, calls, td, upstream, prior, session>>

\* The caller sends the same request again (requests that never reached an
\* upstream service only; the others depend on what the services answer).
Repeat ==
  /\ pc = "done"
  /\ prior.status = 0
  /\ req.method = "POST"
  /\ calls.transcription = 0
  /\ calls.analysis = 0
  /\ pc' = "idle"
  /\ prior' = response
  /\ UNCHANGED <<env, req, calls, td, upstream, ladder, response, session>>

Next ==
  \/ (\E r \in Requests : Receive(r)) /\ UNCHANGED <<ladderVars, rlsVars, corsVars, pageVars>>
  \/ (\E u \in [error : BOOLEAN, user : BOOLEAN] : GetUserReturns(u)) /\ UNCHANGED <<ladderVars, rlsVars, corsVars, pageVars>>
  \/ (\E f \in UpstreamFailures : TranscriptionFails(f)) /\ UNCHANGED <<ladderVars, rlsVars, corsVars, pageVars>>
  \/ (\E d \in TranscriptionData : TranscriptionReturns(d)) /\ UNCHANGED <<ladderVars, rlsVars, corsVars, pageVars>>
  \/ (\E f \in UpstreamFailures : AnalysisFails(f)) /\ UNCHANGED <<ladderVars, rlsVars, corsVars, pageVars>>
  \/ (\E c \in Contents : AnalysisReturns(c)) /\ UNCHANGED <<ladderVars, rlsVars, corsVars, pageVars>>
  \/ Repeat /\ UNCHANGED <<ladderVars, rlsVars, corsVars, pageVars>>

Spec == Init /\ [][Next]_vars

\* ------------------------------------------------------------------------
\* The repair ladder alone, on texts of every shape
\* ------------------------------------------------------------------------
RECURSIVE Nested(_)
Nested(d) == IF d <= 1 THEN Arr(<<Num(1), Num(2)>>) ELSE Arr(<<Nested(d - 1)>>)

RECURSIVE Chain(_)
Chain(d) == IF d <= 0 THEN Num(1) ELSE Arr(<<Obj1("b", Chain(d - 1))>>)

\* Well-formed objects: nested arrays, objects inside arrays, flat members,
\* strings that hold structural characters, a line break or a fence.
LadderObjects ==
  {Obj1("a", Nested(d)) : d \in 1..MaxDepth}
  \cup {Obj1("a", Chain(d)) : d \in 1..MaxDepth}
  \cup {Obj(<<Key("a"), Key("b"), Key("c")>>, <<Num(1), Text("xy"), Null>>),
        Obj2("a", Str(<<"x", ",", "}">>), "b", Str(<<"{", "[">>)),
        Obj2("a", Str(<<"li", NL, "ne">>), "b", Bool(TRUE)),
        Obj1("a", Str(<<FENCE, "json", SP, "x">>))}

Spaced(txt) == <<Head(txt), NL>> \o SubSeq(txt, 2, Len(txt) - 1) \o <<NL, txt[Len(txt)]>>
WithComma(txt) == SubSeq(txt, 1, Len(txt) - 1) \o <<",", SP, txt[Len(txt)]>>

LadderTexts(base) ==
  {[text |-> base, kind |-> "whole"],
   [text |-> Fenced(base, "json"), kind |-> "fenced"],
   [text |-> Fenced(base, "JSON"), kind |-> "fenced"],
   [text |-> <<FENCE, NL>> \o base \o <<NL, FENCE, NL>>, kind |-> "fenced"],
   [text |-> InProse(base), kind |-> "prose"],
   [text |-> Spaced(base), kind |-> "spaced"],
   [text |-> WithComma(base), kind |-> "comma"]}
  \cup {[text |-> Cut(base, n), kind |-> "cut"] : n \in 1..(Len(base) - 1)}
  \cup {[text |-> <<FENCE, "json", NL>> \o Cut(base, n), kind |-> "fencedcut"] : n \in 1..(Len(base) - 1)}

LadderInputs ==
  UNION {{[text |-> x.text, kind |-> x.kind, base |-> JSONstringify(o), variant |-> w, before |-> Undef] :
            x \in LadderTexts(JSONstringify(o)), w \in {"current", "earlier"}} :
         o \in LadderObjects}

InitLadder ==
  /\ pc = "off"
  /\ env = [handler |-> "current", LOVABLE_API_KEY |-> FALSE, GROQ_API_KEY |-> FALSE]
  /\ req = NoRequest
  /\ calls = [transcription |-> 0, analysis |-> 0]
  /\ td = NoTranscription
  /\ upstream = NoFailure
  /\ ladder = NoLadder
  /\ response = NoResponse
  /\ prior = NoResponse
  /\ session = NoSession
  /\ pin \in LadderInputs
  /\ pout = NoLadder
  /\ ppc = "input"
  /\ rows = {}
  /\ last = NoStatement
  /\ CorsOff
  /\ PageOff

\* The current handler's cleanAndParseJSON is applied to the text.
RunLadder ==
  /\ ppc = "input"
  /\ pin.variant = "current"
  /\ \E run \in {cleanAndParseJSON(pin.text)} : pout' = Ran(pin.text, pin.text, run)
  /\ ppc' = "done"
  /\ UNCHANGED pin

\* The earlier handler's cleanAndParseJSON is applied to the text.
RunLadderEarlier ==
  /\ ppc = "input"
  /\ pin.variant = "earlier"
  /\ \E run \in {cleanAndParseJSONEarlier(pin.text)} : pout' = Ran(pin.text, pin.text, run)
  /\ ppc' = "done"
  /\ UNCHANGED pin

\* The returned object is serialised and becomes the next input.
Reserialize ==
  /\ ppc = "done"
  /\ pout.ok
  /\ pin.kind # "again"
  /\ pin' = [pin EXCEPT !.text = JSONstringify(pout.v), !.kind = "again", !.before = pout.v]
  /\ pout' = NoLadder
  /\ ppc' = "input"

\* The text that was given bare is given again inside markdown fencing.
Refence(tag, sep, pad) ==
  /\ ppc = "done"
  /\ pout.ok
  /\ pin.kind = "whole"
  /\ pin' = [pin EXCEPT !.text = Wrapped(pin.base, tag, sep, pad), !.kind = "refenced", !.before = pout.v]
  /\ pout' = NoLadder
  /\ ppc' = "input"

NextLadder ==
  \/ RunLadder /\ UNCHANGED <<handlerVars, rlsVars, corsVars, pageVars>>
  \/ (\E tag \in FenceTags, sep \in {<<>>, <<NL>>}, pad \in {<<>>, <<SP>>, <<NL>>} : Refence(tag, sep, pad))
       /\ UNCHANGED <<handlerVars, rlsVars, corsVars, pageVars>>
  \/ RunLadderEarlier /\ UNCHANGED <<handlerVars, rlsVars, corsVars, pageVars>>
  \/ Reserialize /\ UNCHANGED <<handlerVars, rlsVars, corsVars, pageVars>>

SpecLadder == InitLadder /\ [][NextLadder]_vars

\* ------------------------------------------------------------------------
\* Row-level security of speech_analyses
\* ------------------------------------------------------------------------
\* auth.uid() of a caller without a session is NULL.
NullUid == "NULL"
Owners == {"A", "B"}
Callers == Owners \cup {NullUid}
RowIds == 1..MaxRows

\* Faulty variant that C15 must tell apart: the policies admit every
\* signed-in caller.
OwnsRowAnyUser(uid, row) == uid # NullUid

\* auth.uid() = user_id; a comparison with NULL is not true.
OwnsRow(uid, row) == uid # NullUid /\ uid = row.user_id

\* SELECT, INSERT and DELETE each have a policy, with the same condition.
\* With row level security enabled, a command without a policy (UPDATE) is
\* permitted on no row.
Permits(cmd, uid, row) == cmd \in {"SELECT", "INSERT", "DELETE"} /\ OwnsRow(uid, row)

\* The rows a statement of the caller with a filter on id works on: those
\* the SELECT policy shows and the command's own policy permits.
Targets(cmd, uid, ids) ==
  {r \in rows : r.id \in ids /\ Permits("SELECT", uid, r) /\ Permits(cmd, uid, r)}

InitRls ==
  /\ pc = "off"
  /\ env = [handler |-> "current", LOVABLE_API_KEY |-> FALSE, GROQ_API_KEY |-> FALSE]
  /\ req = NoRequest
  /\ calls = [transcription |-> 0, analysis |-> 0]
  /\ td = NoTranscription
  /\ upstream = NoFailure
  /\ ladder = NoLadder
  /\ response = NoResponse
  /\ prior = NoResponse
  /\ session = NoSession
  /\ pin = [text |-> <<>>, kind |-> "none", base |-> <<>>, variant |-> "none", before |-> Undef]
  /\ pout = NoLadder
  /\ ppc = "off"
  /\ rows = {}
  /\ last = NoStatement
  /\ CorsOff
  /\ PageOff

\* SELECT ... WHERE id IN ids
RlsSelect(uid, ids) ==
  /\ last' = [cmd |-> "SELECT", uid |-> uid, ids |-> ids, ok |-> TRUE, rows |-> Targets("SELECT", uid, ids)]
  /\ rows' = rows

\* INSERT of one row; the WITH CHECK of the policy is applied to the new
\* row and a row that fails it is an error.
RlsInsert(uid, row) ==
  /\ \A r \in rows : r.id # row.id
  /\ IF Permits("INSERT", uid, row)
       THEN /\ rows' = rows \cup {row}
            /\ last' = [cmd |-> "INSERT", uid |-> uid, ids |-> {row.id}, ok |-> TRUE, rows |-> {row}]
       ELSE /\ rows' = rows
            /\ last' = [cmd |-> "INSERT", uid |-> uid, ids |-> {row.id}, ok |-> FALSE, rows |-> {}]

\* DELETE ... WHERE id IN ids
RlsDelete(uid, ids) ==
  /\ rows' = rows \ Targets("DELETE", uid, ids)
  /\ last' = [cmd |-> "DELETE", uid |-> uid, ids |-> ids, ok |-> TRUE, rows |-> Targets("DELETE", uid, ids)]

\* UPDATE ... SET user_id = owner WHERE id IN ids
RlsUpdate(uid, ids, owner) ==
  /\ rows' = (rows \ Targets("UPDATE", uid, ids))
               \cup {[r EXCEPT !.user_id = owner] : r \in Targets("UPDATE", uid, ids)}
  /\ last' = [cmd |-> "UPDATE", uid |-> uid, ids |-> ids, ok |-> TRUE, rows |-> Targets("UPDATE", uid, ids)]

NextRls ==
  \/ (\E uid \in Callers, ids \in SUBSET RowIds : RlsSelect(uid, ids)) /\ UNCHANGED <<handlerVars, ladderVars, corsVars, pageVars>>
  \/ (\E uid \in Callers, row \in [id : RowIds, user_id : Owners] : RlsInsert(uid, row))
       /\ UNCHANGED <<handlerVars, ladderVars, corsVars, pageVars>>
  \/ (\E uid \in Callers, ids \in SUBSET RowIds : RlsDelete(uid, ids)) /\ UNCHANGED <<handlerVars, ladderVars, corsVars, pageVars>>
  \/ (\E uid \in Callers, ids \in SUBSET RowIds, owner \in Owners : RlsUpdate(uid, ids, owner))
       /\ UNCHANGED <<handlerVars, ladderVars, corsVars, pageVars>>

SpecRls == InitRls /\ [][NextRls]_vars

\* ------------------------------------------------------------------------
\* CORS: the Access-Control-Allow-Origin header
\* ------------------------------------------------------------------------
\* An origin is a sequence of units: the scheme, then the parts of the host
\* (a label, or a dot-led suffix such as .lovable.app), then the port if
\* any.  <<>> is the absent Origin header (null).
HandlerOff ==
  /\ pc = "off"
  /\ env = [handler |-> "current", LOVABLE_API_KEY |-> FALSE, GROQ_API_KEY |-> FALSE]
  /\ req = NoRequest
  /\ calls = [transcription |-> 0, analysis |-> 0]
  /\ td = NoTranscription
  /\ upstream = NoFailure
  /\ ladder = NoLadder
  /\ response = NoResponse
  /\ prior = NoResponse
  /\ session = NoSession
LadderOff ==
  /\ pin = [text |-> <<>>, kind |-> "none", base |-> <<>>, variant |-> "none", before |-> Undef]
  /\ pout = NoLadder
  /\ ppc = "off"
RlsOff == rows = {} /\ last = NoStatement

LocalOrigins ==
  <<<<"http://", "localhost", ":8080">>, <<"http://", "localhost", ":5173">>,
    <<"http://", "localhost", ":3000">>>>
ProjectUrl == <<"https://", "project", ".supabase.co">>

\* A host: a label, then one to MaxLabels suffixes.
Suffixes == {".lovable.app", ".lovableproject.com", ".evil.com"}
Hosts == {<<label>> \o rest : label \in {"app", "preview"}, rest \in UNION {[1..n -> Suffixes] : n \in 1..MaxLabels}}
Origins ==
  {<<>>, ProjectUrl} \cup {LocalOrigins[i] : i \in 1..Len(LocalOrigins)}
  \cup {<<scheme>> \o host : scheme \in {"https://", "http://"}, host \in Hosts}

\* requestOrigin.includes(part), for a part that is one unit.
Includes(origin, part) == \E i \in 1..Len(origin) : origin[i] = part

getAllowedOrigin(requestOrigin, SUPABASE_URL) ==
  LET allowedOrigins == SelectSeq(<<SUPABASE_URL>> \o LocalOrigins, LAMBDA o : o # <<>>) IN
  IF /\ requestOrigin # <<>>
     /\ \/ Includes(requestOrigin, ".lovableproject.com")
        \/ Includes(requestOrigin, ".lovable.app")
        \/ \E i \in 1..Len(allowedOrigins) : allowedOrigins[i] = requestOrigin
    THEN requestOrigin
  ELSE IF Len(allowedOrigins) > 0 /\ allowedOrigins[1] # <<>> THEN allowedOrigins[1]
  ELSE <<"*">>

InitCors ==
  /\ HandlerOff
  /\ LadderOff
  /\ RlsOff
  /\ cors \in [SUPABASE_URL : {<<>>, ProjectUrl}, served : {FALSE}, origin : {<<>>}, header : {<<>>}]
  /\ PageOff

\* A request with the given Origin header is served: every response to it
\* (preflight, 401, 200, 500) carries the header computed on entry.
ServeOrigin(origin) ==
  cors' = [cors EXCEPT !.served = TRUE, !.origin = origin,
                       !.header = getAllowedOrigin(origin, cors.SUPABASE_URL)]

NextCors ==
  (\E origin \in Origins : ServeOrigin(origin)) /\ UNCHANGED <<handlerVars, ladderVars, rlsVars, pageVars>>

SpecCors == InitCors /\ [][NextCors]_vars

\* ------------------------------------------------------------------------
\* The page (pages/Index.tsx), the uploader (components/VideoUploader.tsx)
\* and the history list (AnalysisHistory)
\* ------------------------------------------------------------------------
\* Index.tsx holds two pages: the current one (saves each analysis to the
\* history) and an earlier one (no history).  A file is its MIME type and
\* the part of the type before the slash.
MediaTypes ==
  {[text |-> "video/mp4", top |-> "video"], [text |-> "video/webm", top |-> "video"],
   [text |-> "video/quicktime", top |-> "video"], [text |-> "audio/mpeg", top |-> "audio"]}

\* file.type.startsWith('video/')
IsVideo(file) == file.top = "video"

\* The files the file dialog of <input accept="video/*"> offers.
PickerFiles == {file \in MediaTypes : file.top = "video"}

\* Analyses the function answers with: normalised results of the handler.
PageTranscription ==
  LET words == [i \in 1..2 |-> WordAt("unclear", i)] IN
  [duration |-> 16, words |-> words, unclearWords |-> UnclearWords(words, 1)]
PageAnalyses ==
  {Success(Normalize(o, PageTranscription).v).body :
     o \in {EmptyObj, Obj2("proficiencyLevel", Text("Advanced"), "vocabulary", Obj1("score", Num(9)))}}

\* What supabase.functions.invoke settles with: data, an error, data with
\* an error field, or an exception.
InvokeResults ==
  {[kind |-> "data", data |-> a] : a \in PageAnalyses}
  \cup {[kind |-> k, data |-> Null] : k \in {"error", "bodyError", "throws"}}

\* v || d
OrElse(v, d) == IF Truthy(v) THEN v ELSE d

\* Math.round((voiceScore + structureScore + vocabScore) / 3 * 10) / 10, in
\* tenths, for numeric scores; an absent or zero score counts 0.
OverallScore(data) ==
  LET score(g) == OrElse(Get(Get(data, Key(g)), Key("score")), Num(0)).n
      sum == score("voiceModulation") + score("thoughtStructure") + score("vocabulary")
  IN Num((20 * sum + 3) \div 6)

CategoryKeys ==
  <<"voiceModulation", "thoughtStructure", "vocabulary", "proficiencyLevel", "summary",
    "wordsPerMinute", "totalWords", "durationSeconds", "timestampedFeedback", "strengths",
    "developmentAreas", "drillSuggestion">>

\* The row handed to insert(); a member that is undefined is not sent.
InsertRow(data) ==
  Obj(<<Key("user_id"), Key("overall_score"), Key("full_transcript"), Key("mispronunciations"),
        Key("categories")>>,
      <<Text("<user>"), OverallScore(data), OrElse(Get(data, Key("fullTranscript")), Null),
        OrElse(Get(data, Key("mispronunciations")), Arr(<<>>)),
        ObjOf(CategoryKeys, [i \in 1..Len(CategoryKeys) |-> Get(data, Key(CategoryKeys[i]))])>>)

HISTORY_LIMIT == 10

\* select('*').order('created_at', { ascending: false }).limit(10)
Latest(saved) ==
  [i \in 1..(IF Len(saved) < HISTORY_LIMIT THEN Len(saved) ELSE HISTORY_LIMIT) |-> saved[Len(saved) - i + 1]]

\* The object handleSelect hands to onSelectAnalysis.
handleSelect(analysis) ==
  Obj(<<Key("overallScore"), Key("fullTranscript"), Key("categories"), Key("mispronunciations")>>,
      <<Get(analysis, Key("overall_score")), Get(analysis, Key("full_transcript")),
        Get(analysis, Key("categories")),
        OrElse(Get(analysis, Key("mispronunciations")), Arr(<<>>))>>)

\* One analysis under way: where it stands, the data the invocation
\* returned and how the history insert ended.
NewTask == [at |-> "reading", data |-> Null, saved |-> "none"]

\* setAnalysisResults(data); setIsComplete(true); toast: with a result to
\* show the page renders the results in place of the uploader, which is
\* unmounted with its selected file.
Shown(p, data) ==
  [p EXCEPT !.analysisResults = data, !.isComplete = TRUE, !.toast = "complete", !.selectedFile = NoFile]

InitPage ==
  /\ HandlerOff
  /\ LadderOff
  /\ RlsOff
  /\ CorsOff
  /\ page \in {[NoPage EXCEPT !.variant = v] : v \in {"current", "earlier"}}
  /\ tasks = <<>>
  /\ history = NoHistory

\* handleDrop: a dropped file is selected when its type starts with video/.
DropFile(file) ==
  /\ page.analysisResults = Null
  /\ page.selectedFile = NoFile
  /\ page' = IF IsVideo(file) THEN [page EXCEPT !.selectedFile = file] ELSE page
  /\ UNCHANGED <<tasks, history>>

\* handleInputChange: the file chosen in the file dialog is selected.
ChooseFile(file) ==
  /\ page.analysisResults = Null
  /\ page.selectedFile = NoFile
  /\ page' = [page EXCEPT !.selectedFile = file]
  /\ UNCHANGED <<tasks, history>>

\* handleClear (the Remove button)
ClearFile ==
  /\ page.analysisResults = Null
  /\ page.selectedFile # NoFile
  /\ ~page.isProcessing /\ ~page.isComplete
  /\ page' = [page EXCEPT !.selectedFile = NoFile]
  /\ UNCHANGED <<tasks, history>>

\* A click on Analyze Speech: handleAnalyze calls handleVideoSelect, which
\* starts reading the file and waits for the reader.
ClickAnalyze ==
  /\ page.analysisResults = Null
  /\ page.selectedFile # NoFile
  /\ ~page.isProcessing /\ ~page.isComplete
  /\ Len(tasks) < MaxAnalyses
  /\ tasks' = Append(tasks, NewTask)
  /\ UNCHANGED <<page, history>>

\* reader.onload: handleVideoSelect goes on into analyzeMedia, which sets
\* the processing state and invokes the function.
ReadCompletes(i) ==
  /\ tasks[i].at = "reading"
  /\ tasks' = [tasks EXCEPT ![i].at = "invoking"]
  /\ page' = [page EXCEPT !.isProcessing = TRUE, !.isComplete = FALSE]
  /\ UNCHANGED history

\* reader.onerror: the promise is rejected and analyzeMedia is not called.
ReadFails(i) ==
  /\ tasks[i].at = "reading"
  /\ tasks' = [tasks EXCEPT ![i].at = "unread"]
  /\ UNCHANGED <<page, history>>

\* The invocation settles.  With an analysis the current page sends the
\* insert and the earlier page shows the result.  On a failure the earlier
\* page shows the destructive toast and leaves the processing state; the
\* catch block of the current page stops at its reference to data, a
\* name that is declared inside the try block: a ReferenceError, before
\* the toast and before setIsProcessing(false).
InvokeReturns(i, result) ==
  /\ tasks[i].at = "invoking"
  /\ IF result.kind = "data"
       THEN IF page.variant = "current"
              THEN /\ tasks' = [tasks EXCEPT ![i].at = "inserting", ![i].data = result.data]
                   /\ page' = page
              ELSE /\ tasks' = [tasks EXCEPT ![i].at = "shown", ![i].data = result.data]
                   /\ page' = Shown(page, result.data)
       ELSE /\ tasks' = [tasks EXCEPT ![i].at = "failed"]
            /\ page' = IF page.variant = "current" THEN page
                       ELSE [page EXCEPT !.toast = "destructive", !.isProcessing = FALSE]
  /\ UNCHANGED history

\* Faulty variant that C22 must tell apart: a result whose insert failed is
\* not shown.
InsertReturnsOrDiscards(i, result) ==
  /\ tasks[i].at = "inserting"
  /\ tasks' = [tasks EXCEPT ![i].at = "shown", ![i].saved = result]
  /\ history' = IF result = "ok" THEN [history EXCEPT !.rows = Append(@, InsertRow(tasks[i].data))]
                ELSE history
  /\ page' = IF result = "ok"
               THEN [Shown(page, tasks[i].data) EXCEPT !.historyRefresh = @ + 1]
               ELSE [page EXCEPT !.isProcessing = FALSE]

\* The insert settles (saved, answered with an error, or thrown): the
\* refresh counter moves when it was saved, and the result is shown.
InsertReturns(i, result) ==
  /\ tasks[i].at = "inserting"
  /\ tasks' = [tasks EXCEPT ![i].at = "shown", ![i].saved = result]
  /\ history' = IF result = "ok" THEN [history EXCEPT !.rows = Append(@, InsertRow(tasks[i].data))]
                ELSE history
  /\ page' = [Shown(page, tasks[i].data) EXCEPT !.historyRefresh = IF result = "ok" THEN @ + 1 ELSE @]

\* The effect of AnalysisHistory on mount and on a new refreshTrigger:
\* fetchAnalyses; a failed select leaves the list as it is.
FetchAnalyses(ok) ==
  /\ page.variant = "current"
  /\ history.fetched # page.historyRefresh
  /\ history' = [history EXCEPT !.fetched = page.historyRefresh,
                                !.analyses = IF ok THEN Latest(history.rows) ELSE @]
  /\ UNCHANGED <<page, tasks>>

\* A click on an entry of the history: handleSelect, onSelectAnalysis is
\* setAnalysisResults.
SelectHistory(i) ==
  /\ page.variant = "current"
  /\ i \in 1..Len(history.analyses)
  /\ page' = [page EXCEPT !.analysisResults = handleSelect(history.analyses[i]), !.selectedFile = NoFile]
  /\ UNCHANGED <<tasks, history>>

\* handleNewAnalysis (Analyze Another Speech)
NewAnalysis ==
  /\ page.analysisResults # Null
  /\ page' = [page EXCEPT !.isProcessing = FALSE, !.isComplete = FALSE, !.analysisResults = Null]
  /\ UNCHANGED <<tasks, history>>

NextPage ==
  \/ (\E file \in MediaTypes : DropFile(file)) /\ UNCHANGED <<handlerVars, ladderVars, rlsVars, corsVars>>
  \/ (\E file \in PickerFiles : ChooseFile(file)) /\ UNCHANGED <<handlerVars, ladderVars, rlsVars, corsVars>>
  \/ ClearFile /\ UNCHANGED <<handlerVars, ladderVars, rlsVars, corsVars>>
  \/ ClickAnalyze /\ UNCHANGED <<handlerVars, ladderVars, rlsVars, corsVars>>
  \/ (\E i \in 1..Len(tasks) : ReadCompletes(i)) /\ UNCHANGED <<handlerVars, ladderVars, rlsVars, corsVars>>
  \/ (\E i \in 1..Len(tasks) : ReadFails(i)) /\ UNCHANGED <<handlerVars, ladderVars, rlsVars, corsVars>>
  \/ (\E i \in 1..Len(tasks), result \in InvokeResults : InvokeReturns(i, result))
       /\ UNCHANGED <<handlerVars, ladderVars, rlsVars, corsVars>>
  \/ (\E i \in 1..Len(tasks), result \in {"ok", "error", "throws"} : InsertReturns(i, result))
       /\ UNCHANGED <<handlerVars, ladderVars, rlsVars, corsVars>>
  \/ (\E ok \in BOOLEAN : FetchAnalyses(ok)) /\ UNCHANGED <<handlerVars, ladderVars, rlsVars, corsVars>>
  \/ (\E i \in 1..MaxAnalyses : SelectHistory(i)) /\ UNCHANGED <<handlerVars, ladderVars, rlsVars, corsVars>>
  \/ NewAnalysis /\ UNCHANGED <<handlerVars, ladderVars, rlsVars, corsVars>>

SpecPage == InitPage /\ [][NextPage]_vars

\* ========================================================================
\* Properties
\* ========================================================================
ErrorOf(r) == Get(r.body, Key("error"))
NoCalls == calls = [transcription |-> 0, analysis |-> 0]

\* The request was authenticated and its body was read: it reached the
\* input validation.
Validated ==
  /\ pc = "done"
  /\ req.method = "POST"
  /\ req.authorization
  /\ req.json
  /\ response.status # 401

Answered == pc = "done" /\ response.status = 200 /\ ladder.ran

\* ---- C1 (SpecLadder) ---------------------------------------------------
\* C1: for a truncated object text with k more opening than closing
\* brackets and m more opening than closing braces that reaches the last
\* step of the current ladder, the text parsed ends with exactly k closing
\* brackets followed by exactly m closing braces and parses as an object.
C1_TruncationRepaired ==
  (ppc = "done" /\ pin.variant = "current" /\ pin.kind = "cut" /\ pout.step >= 4) =>
    LET k == Count(pin.text, "[") - Count(pin.text, "]")
        m == Count(pin.text, "{") - Count(pin.text, "}")
        closers == Times("]", k) \o Times("}", m)
        n == Len(pout.parsed)
    IN /\ n >= Len(closers)
       /\ SubSeq(pout.parsed, n - Len(closers) + 1, n) = closers
       /\ pout.ok
       /\ pout.v.t = "obj"

\* ---- C6 (SpecLadder) ---------------------------------------------------
\* C6: in both handlers' ladders no rewriting precedes the first parse: a
\* text that is valid JSON once fences and surrounding whitespace are
\* stripped is returned by the first parse, as that very value; and a run
\* on the serialised result of a run returns the same value again.
C6_LazyLadder ==
  ppc = "done" =>
    /\ JSONparse(Cleaned(pin.text)).ok =>
         /\ pout.ok
         /\ pout.step = 1
         /\ pout.parsed = Cleaned(pin.text)
         /\ pout.v = JSONparse(Cleaned(pin.text)).v
    /\ pin.kind = "again" => pout.ok /\ pout.v = pin.before

\* ---- C2 (Spec) ---------------------------------------------------------
\* C2: in every analysis the current handler returns each of the three
\* groups exists and its own score is a number.
C2_GroupScores ==
  (Answered /\ env.handler = "current") =>
    \A i \in 1..Len(GROUPS) :
      /\ HasProp(response.body, Key(GROUPS[i]))
      /\ Get(Get(response.body, Key(GROUPS[i])), Key("score")).t = "num"

\* ---- C3 (Spec) ---------------------------------------------------------
\* C3: when the parsed object lacks one or more of the 13 required leaves,
\* the analysis the current handler returns has every required leaf, each
\* with a numeric score in 1..10.
MissesLeaf(parsed) ==
  \E i \in 1..Len(GROUPS) : \E j \in 1..Len(LEAVES[GROUPS[i]]) :
    ~HasProp(Get(parsed, Key(GROUPS[i])), Key(LEAVES[GROUPS[i]][j]))

C3_LeafScores ==
  (Answered /\ env.handler = "current" /\ MissesLeaf(ladder.v)) =>
    \A i \in 1..Len(GROUPS) : \A j \in 1..Len(LEAVES[GROUPS[i]]) :
      LET leaf == Get(Get(response.body, Key(GROUPS[i])), Key(LEAVES[GROUPS[i]][j])) IN
      /\ leaf.t = "obj"
      /\ Get(leaf, Key("score")).t = "num"
      /\ Get(leaf, Key("score")).n \in 1..10

\* ---- C4 (Spec) ---------------------------------------------------------
\* C4: once the current handler has parsed the model text, the request
\* succeeds: the normaliser completes and the response is the 200 result.
C4_NormalizeNeverFails ==
  (pc = "done" /\ env.handler = "current" /\ ladder.ran /\ ladder.ok) => response.status = 200

\* ---- C5 (Spec) ---------------------------------------------------------
\* The four parse attempts of the ladder on the extracted text, stated on
\* their own: direct, without trailing commas, first to last brace,
\* balanced.
AllAttemptsFail(input) ==
  LET cleaned == Cleaned(input)
      cleaned2 == RemoveTrailingCommas(cleaned)
      firstBrace == IndexOf(cleaned2, "{")
      lastBrace == LastIndexOf(cleaned2, "}")
  IN /\ ~JSONparse(cleaned).ok
     /\ ~JSONparse(cleaned2).ok
     /\ ~(firstBrace # 0 /\ lastBrace > firstBrace /\ JSONparse(SubSeq(cleaned2, firstBrace, lastBrace)).ok)
     /\ ~JSONparse(Balanced(cleaned2)).ok

HoldsAnalysis(body) ==
  \/ body.t # "obj"
  \/ \E i \in 1..Len(GROUPS) : HasProp(body, Key(GROUPS[i]))
  \/ HasProp(body, Key("proficiencyLevel"))
  \/ HasProp(body, Key("summary"))

\* C5: the current handler's ladder returns an object or throws; when all
\* four parse attempts fail the response is the error envelope with status
\* 500 and holds no analysis, empty, partial or default-filled.
C5_UnparsableIsError ==
  (pc = "done" /\ env.handler = "current" /\ ladder.ran) =>
    /\ ladder.ok => ladder.v.t = "obj"
    /\ AllAttemptsFail(ladder.input) =>
         /\ response.status = 500
         /\ ErrorOf(response) = Str(MsgProcess)
         /\ ~HoldsAnalysis(response.body)

C5_Witness ==
  /\ pc = "done"
  /\ env.handler = "current"
  /\ ladder.ran
  /\ AllAttemptsFail(ladder.input)
  /\ response.status = 500

C8_SizeCeiling ==
  (/\ Validated
   /\ req.audio.isString /\ req.audio.length > 0
   /\ req.mimeType.isString
   /\ req.mimeType.text \in {"video/mp4", "video/webm", "audio/webm", "audio/mp4",
                             "audio/m4a", "audio/mpeg", "audio/wav"}) =>
    /\ (ErrorOf(response) = Str(MsgTooLarge)) <=> (req.audio.length * 3 > 4 * (100 * 1024 * 1024))
    /\ (ErrorOf(response) = Str(MsgTooLarge)) => (response.status = 500 /\ NoCalls)

C8_Witness ==
  /\ Validated
  /\ ErrorOf(response) = Str(MsgTooLarge)
  /\ req.audio.length = BoundaryLength + 1
  /\ NoCalls

\* ---- C9 (Spec) ---------------------------------------------------------
\* C9: a validated request with a payload whose declared mimeType is not
\* one of the seven allowed types is rejected with the invalid-file-type
\* error, without an upstream call, and with the same response as when the
\* same request was validated before.
C9_MimeRejected ==
  (/\ Validated
   /\ req.audio.isString /\ req.audio.length > 0
   /\ req.mimeType.isString /\ req.mimeType.text # ""
   /\ req.mimeType.text \notin {"video/mp4", "video/webm", "audio/webm", "audio/mp4",
                                "audio/m4a", "audio/mpeg", "audio/wav"}) =>
    /\ response.status = 500
    /\ ErrorOf(response) = Str(MsgInvalidType(req.mimeType.text))
    /\ NoCalls
    /\ prior.status \notin {0, 401} => response = prior

C9_Witness ==
  /\ Validated
  /\ req.mimeType.text = "video/quicktime"
  /\ ErrorOf(response) = Str(MsgInvalidType("video/quicktime"))
  /\ prior = response
  /\ NoCalls

\* ---- C10 (Spec) --------------------------------------------------------
\* C10: whenever the transcription or the analysis call of the current
\* handler answers 429, the response carries the rate-limit message,
\* whatever the body of the upstream answer.
C10_RateLimited ==
  (pc = "done" /\ env.handler = "current" /\ upstream.kind = "http" /\ upstream.status = 429) =>
    ErrorOf(response) = Str(MsgRateLimit)

\* ---- C11 (Spec) --------------------------------------------------------
\* C11: when the analysis call answers 503, or any failure status with a
\* body containing "Temporarily unavailable", the response is the error
\* envelope with status 500 and the message that the AI service is
\* temporarily unavailable and to try again; in either handler.
C11_OutageMessage ==
  (/\ pc = "done"
   /\ upstream.call = "analysis" /\ upstream.kind = "http"
   /\ (upstream.status = 503 \/ upstream.text = "Temporarily unavailable")) =>
    /\ response.status = 500
    /\ ErrorOf(response) =
         Text("The AI service is temporarily unavailable. Please try again in a few minutes.")

\* ---- C12 (Spec) --------------------------------------------------------
\* C12: within one request the current handler makes at most one
\* transcription call and at most one analysis call; the analysis call is
\* made only once the transcription call has returned; a failed
\* transcription ends the request with the error response and no analysis
\* call, and a failed analysis ends it with no further call.
C12_NoRetryInOrder ==
  env.handler = "current" =>
    /\ calls.transcription <= 1
    /\ calls.analysis <= 1
    /\ calls.analysis = 1 =>
         (calls.transcription = 1 /\ td.duration # Absent /\ upstream.call # "transcription")
    /\ upstream.call = "transcription" =>
         (pc = "done" /\ response.status = 500 /\ calls = [transcription |-> 1, analysis |-> 0])
    /\ upstream.call = "analysis" =>
         (pc = "done" /\ response.status = 500 /\ calls = [transcription |-> 1, analysis |-> 1])

C12_Witness ==
  /\ env.handler = "current"
  /\ pc = "done"
  /\ upstream.call = "transcription" /\ upstream.kind = "http"
  /\ calls = [transcription |-> 1, analysis |-> 0]
  /\ response.status = 500

\* ---- C13 (Spec) --------------------------------------------------------
\* C13: a request other than OPTIONS without an Authorization header, or
\* for which getUser answered with an error or without a user, is answered
\* with status 401 and an envelope that holds the error alone, whatever its
\* body; no transcription or analysis call was made for it and nothing was
\* transcribed or parsed.
C13_Unauthorized ==
  (/\ pc = "done"
   /\ req.method # "OPTIONS"
   /\ \/ ~req.authorization
      \/ session.asked /\ (session.error \/ ~session.user)) =>
    /\ response.status = 401
    /\ response.body.t = "obj"
    /\ response.body.k = <<Key("error")>>
    /\ ErrorOf(response).t = "str"
    /\ NoCalls
    /\ td = NoTranscription
    /\ ~ladder.ran

C13_Witness ==
  /\ pc = "done"
  /\ req.authorization
  /\ ~req.json
  /\ session.asked /\ ~session.error /\ ~session.user
  /\ response.status = 401
  /\ NoCalls

\* ---- C14 (Spec) --------------------------------------------------------
\* C14: every response is status 200 with the normalised analysis (or the
\* empty preflight reply), or status 401 or 500 with an envelope that holds
\* the error message and no other field; a request that fails the input
\* validation is answered with status 500.
C14_ResponseShapes ==
  pc = "done" =>
    /\ \/ response.status = 200 /\ req.method = "OPTIONS" /\ response.body = Null
       \/ response.status = 200 /\ ladder.ran /\ ladder.ok /\ response.body.t = "obj"
       \/ /\ response.status \in {401, 500}
          /\ response.body.t = "obj"
          /\ response.body.k = <<Key("error")>>
          /\ ErrorOf(response).t = "str"
    /\ (Validated /\ ValidationError(req, env) # <<>>) => response.status = 500

\* ---- C15 (SpecRls) -----------------------------------------------------
\* C15: every row a statement returns, creates or removes is owned by the
\* caller of the statement; an UPDATE changes and returns no row, and a
\* caller without a session sees and changes nothing.
C15_RowIsolation ==
  [][/\ \A r \in last'.rows \cup (rows' \ rows) \cup (rows \ rows') : r.user_id = last'.uid
     /\ last'.cmd = "UPDATE" => (rows' = rows /\ last'.rows = {})
     /\ last'.uid = "NULL" => (rows' = rows /\ last'.rows = {})]_vars

C15_Witness ==
  /\ last.cmd = "DELETE"
  /\ last.uid = "A"
  /\ last.ids = RowIds
  /\ last.rows # {}
  /\ \E r \in rows : r.user_id = "B"

\* ---- C16 (Spec) --------------------------------------------------------
\* C16: every returned analysis has the three groups; a group whose key is
\* absent from the parsed object is returned with score 5 and with each of
\* its required leaves, each with score 5 and the placeholder feedback.
C16_AbsentGroupDefaults ==
  Answered =>
    \A i \in 1..Len(GROUPS) :
      LET grp == Get(response.body, Key(GROUPS[i])) IN
      /\ HasProp(response.body, Key(GROUPS[i]))
      /\ ~HasProp(ladder.v, Key(GROUPS[i])) =>
           /\ Get(grp, Key("score")) = Num(5)
           /\ \A j \in 1..Len(LEAVES[GROUPS[i]]) :
                LET leaf == Get(grp, Key(LEAVES[GROUPS[i]][j])) IN
                /\ Get(leaf, Key("score")) = Num(5)
                /\ Get(leaf, Key("feedback")) = Text("No specific feedback available.")

C16_Witness ==
  /\ Answered
  /\ ~HasProp(ladder.v, Key("thoughtStructure"))
  /\ HasProp(ladder.v, Key("vocabulary"))
  /\ Get(Get(response.body, Key("thoughtStructure")), Key("score")) = Num(5)

\* ---- C17 (Spec) --------------------------------------------------------
\* C17: in every analysis the current handler returns, for a group that
\* was absent or an object: a required leaf that was absent, or was an
\* object whose score is not a number, has score 5 and the placeholder
\* feedback; a leaf that was an object with a numeric score is returned as
\* it was.
C17_LeafDefaults ==
  (Answered /\ env.handler = "current") =>
    \A i \in 1..Len(GROUPS) : \A j \in 1..Len(LEAVES[GROUPS[i]]) :
      LET before == Get(Get(ladder.v, Key(GROUPS[i])), Key(LEAVES[GROUPS[i]][j]))
          after == Get(Get(response.body, Key(GROUPS[i])), Key(LEAVES[GROUPS[i]][j]))
      IN Get(ladder.v, Key(GROUPS[i])).t \in {"undef", "obj"} =>
           /\ (before.t = "obj" /\ Get(before, Key("score")).t = "num") => after = before
           /\ (before.t = "undef" \/ (before.t = "obj" /\ Get(before, Key("score")).t # "num")) =>
                /\ Get(after, Key("score")) = Num(5)
                /\ Get(after, Key("feedback")) = Text("No specific feedback available.")

\* ---- C18 (Spec) --------------------------------------------------------
\* C18 as stated: a parsed object without proficiencyLevel or summary (and
\* without a group that could fail) is answered with status 200; in every
\* returned analysis an absent proficiencyLevel is "Intermediate", an absent
\* summary is the generic sentence, and one the model supplied is unchanged.
C18_SuppliedScalarsKept ==
  (pc = "done" /\ ladder.ran /\ ladder.ok) =>
    /\ (\A i \in 1..Len(GROUPS) : ~HasProp(ladder.v, Key(GROUPS[i]))) => response.status = 200
    /\ response.status = 200 =>
         /\ Get(response.body, Key("proficiencyLevel")) =
              IF HasProp(ladder.v, Key("proficiencyLevel"))
                THEN Get(ladder.v, Key("proficiencyLevel")) ELSE Text("Intermediate")
         /\ Get(response.body, Key("summary")) =
              IF HasProp(ladder.v, Key("summary"))
                THEN Get(ladder.v, Key("summary"))
                ELSE Text("Analysis completed. Please review the detailed feedback below.")

\* C18 as amended: the same, except that the defaults also replace a
\* proficiencyLevel or summary the model supplied empty (or otherwise
\* falsy); only a truthy one is returned unchanged.
C18_TruthyScalarsKept ==
  (pc = "done" /\ ladder.ran /\ ladder.ok) =>
    /\ (\A i \in 1..Len(GROUPS) : ~HasProp(ladder.v, Key(GROUPS[i]))) => response.status = 200
    /\ response.status = 200 =>
         /\ Get(response.body, Key("proficiencyLevel")) =
              IF Truthy(Get(ladder.v, Key("proficiencyLevel")))
                THEN Get(ladder.v, Key("proficiencyLevel")) ELSE Text("Intermediate")
         /\ Get(response.body, Key("summary")) =
              IF Truthy(Get(ladder.v, Key("summary")))
                THEN Get(ladder.v, Key("summary"))
                ELSE Text("Analysis completed. Please review the detailed feedback below.")

C18_Witness ==
  /\ Answered
  /\ Get(ladder.v, Key("proficiencyLevel")) = Text("Advanced")
  /\ Get(ladder.v, Key("summary")) = Str(<<>>)
  /\ Get(response.body, Key("proficiencyLevel")) = Text("Advanced")
  /\ Get(response.body, Key("summary")) =
       Text("Analysis completed. Please review the detailed feedback below.")

\* ---- C19 (Spec) --------------------------------------------------------
\* C19 as stated: in every analysis the current handler returns, a
\* wordsPerMinute the model supplied is unchanged, and an absent one is
\* the number of transcribed words divided by the duration in seconds,
\* times 60, rounded to the nearest whole number.
C19_RateWhenAbsent ==
  (Answered /\ env.handler = "current") =>
    LET rate == Get(response.body, Key("wordsPerMinute"))
        n == Len(td.words)
    IN IF HasProp(ladder.v, Key("wordsPerMinute"))
         THEN rate = Get(ladder.v, Key("wordsPerMinute"))
         ELSE /\ rate.t = "num"
              /\ 2 * td.duration * rate.n <= 1200 * n + td.duration
              /\ 1200 * n + td.duration < 2 * td.duration * (rate.n + 1)

\* C19 as amended: a truthy wordsPerMinute of the model is unchanged; an
\* absent or falsy one (0) is replaced by the rounded rate (half rounds up)
\* when the duration is positive, and is null when the duration is 0.
C19_RateWhenMissing ==
  (Answered /\ env.handler = "current") =>
    LET rate == Get(response.body, Key("wordsPerMinute"))
        n == Len(td.words)
    IN IF Truthy(Get(ladder.v, Key("wordsPerMinute")))
         THEN rate = Get(ladder.v, Key("wordsPerMinute"))
       ELSE IF td.duration > 0
         THEN /\ rate.t = "num"
              /\ 2 * td.duration * rate.n <= 1200 * n + td.duration
              /\ 1200 * n + td.duration < 2 * td.duration * (rate.n + 1)
       ELSE rate = Null

C19_Witness ==
  /\ Answered
  /\ env.handler = "current"
  /\ ~HasProp(ladder.v, Key("wordsPerMinute"))
  /\ Len(td.words) = 3
  /\ td.duration = 12
  /\ Get(response.body, Key("wordsPerMinute")) = Num(150)

\* ---- C20 (Spec) --------------------------------------------------------
\* C20: in every analysis the current handler returns, a non-empty
\* mispronunciations list of the model is unchanged; an absent or empty one
\* is replaced by one entry per unclear word of the transcription, in
\* transcript order, the first 10 at most, each with the word, a timestamp
\* of whole minutes, a colon and two digits, and an issue text that cites
\* the confidence as a percentage.
C20_MispronunciationsBackfilled ==
  (Answered /\ env.handler = "current") =>
    LET given == Get(ladder.v, Key("mispronunciations"))
        list == Get(response.body, Key("mispronunciations"))
        unclear == UnclearWords(td.words, 1)
        n == IF Len(unclear) < 10 THEN Len(unclear) ELSE 10
    IN /\ (given.t = "arr" /\ Len(given.c) > 0) => list = given
       /\ (given.t = "undef" \/ (given.t = "arr" /\ Len(given.c) = 0)) =>
            /\ list.t = "arr"
            /\ Len(list.c) = n
            /\ \A i \in 1..n :
                 /\ Get(list.c[i], Key("word")) = Text(unclear[i].word)
                 /\ \E d1 \in DigitSet, d2 \in DigitSet :
                      Get(list.c[i], Key("timestamp")) =
                        Str(NumText(unclear[i].timestamp \div 600) \o <<":", d1, d2>>)
                 /\ Get(list.c[i], Key("issue")) =
                      Str(<<"Unclear pronunciation (">> \o NumText(unclear[i].confidence)
                          \o <<"% confidence)">>)

C20_Witness ==
  /\ Answered
  /\ env.handler = "current"
  /\ ~HasProp(ladder.v, Key("mispronunciations"))
  /\ Len(UnclearWords(td.words, 1)) = 11
  /\ Len(Get(response.body, Key("mispronunciations")).c) = 10

\* ---- C21 (SpecLadder) --------------------------------------------------
\* C21: a well-formed object text given inside markdown fencing (with the
\* tag json in any letter case or with no tag, with or without line breaks
\* and surrounding whitespace) is parsed by the current ladder to the very
\* value the same text gave when it was given bare.
C21_FencedSameAsBare ==
  (ppc = "done" /\ pin.variant = "current" /\ pin.kind = "refenced") =>
    /\ pout.ok
    /\ pout.v = pin.before

C21_Witness ==
  /\ ppc = "done"
  /\ pin.variant = "current"
  /\ pin.kind = "refenced"
  /\ pin.text = <<SP, FENCE, "JSON", NL>> \o pin.base \o <<NL, FENCE, SP>>
  /\ pout.ok
  /\ pout.v.t = "obj"
  /\ pout.v = pin.before

\* ---- C24 (Spec) --------------------------------------------------------
\* C24: when the analysis call has returned its text, cleanAndParseJSON is
\* given exactly the span of that text from its first opening brace to its
\* last closing brace, so nothing before the first or after the last brace
\* reaches a repair step; and when no closing brace follows an opening
\* brace the ladder is not run and the response is status 500 with the
\* processing error.
C24_SpanOnly ==
  (pc = "done" /\ calls.analysis = 1 /\ upstream = NoFailure) =>
    LET content == ladder.content
        opens == {i \in 1..Len(content) : content[i] = "{"}
        closes == {i \in 1..Len(content) : content[i] = "}"}
    IN IF \E i \in opens, j \in closes : i < j
         THEN LET from == CHOOSE i \in opens : \A k \in opens : i <= k
                  upto == CHOOSE j \in closes : \A k \in closes : k <= j
              IN /\ ladder.ran
                 /\ ladder.input = [k \in 1..(upto - from + 1) |-> content[from + k - 1]]
         ELSE /\ ~ladder.ran
              /\ response.status = 500
              /\ ErrorOf(response) =
                   Text("Failed to process analysis results. The AI response was incomplete. Please try again.")

\* A model text cut inside the member that follows its only closing
\* brace: the ladder was given the text up to that brace.
C24_Witness ==
  /\ pc = "done" /\ calls.analysis = 1 /\ upstream = NoFailure
  /\ ladder.ran
  /\ ladder.content = Cut(Tailed, Len(Tailed) - 2)
  /\ ladder.input = Cut(Tailed, IndexOf(Tailed, "}"))
  /\ response.status = 200

\* ---- C29 (Spec) --------------------------------------------------------
\* C29: once the transcription has returned, the unclear words are exactly
\* the transcribed words whose confidence is at least 0 and below 0.7, in
\* transcript order, each with its text, its start time and its
\* confidence; no word with confidence 0.7 or higher is among them.
C29_UnclearBelowThreshold ==
  (calls.transcription = 1 /\ pc \in {"analyzing", "done"} /\ upstream.call # "transcription") =>
    LET below == SelectSeq([i \in 1..Len(td.words) |-> i],
                           LAMBDA i : td.words[i].confidence >= 0 /\ td.words[i].confidence < 70)
    IN /\ Len(td.unclearWords) = Len(below)
       /\ \A k \in 1..Len(below) :
            td.unclearWords[k] = [word |-> td.words[below[k]].word,
                                  timestamp |-> td.words[below[k]].start,
                                  confidence |-> td.words[below[k]].confidence]

\* ---- C30 (Spec) --------------------------------------------------------
\* C30: in every analysis the current handler returns with a
\* mispronunciations list made from the unclear words, the timestamp of
\* each entry is the whole minutes of the start time, a colon and a
\* two-digit number of seconds between 00 and 59.
C30_TimestampInRange ==
  (/\ Answered /\ env.handler = "current"
   /\ ~Truthy(Get(ladder.v, Key("mispronunciations")))) =>
    LET list == Get(response.body, Key("mispronunciations")) IN
    \A i \in 1..Len(list.c) :
      \E seconds \in 0..59 :
        Get(list.c[i], Key("timestamp")) =
          Str(NumText(td.unclearWords[i].timestamp \div 600)
              \o <<":", DIGITS[(seconds \div 10) + 1], DIGITS[(seconds % 10) + 1]>>)

\* ---- C27 (SpecCors) ----------------------------------------------------
\* C27: the Access-Control-Allow-Origin header of a response is the
\* request's Origin when that origin is SUPABASE_URL, one of the three
\* localhost URLs, or has a host that ends in .lovableproject.com or
\* .lovable.app; for every other origin it is the first configured origin;
\* it is never the wildcard.
C27_KnownOriginsOnly ==
  cors.served =>
    LET configured ==
          (IF cors.SUPABASE_URL # <<>> THEN <<cors.SUPABASE_URL>> ELSE <<>>)
          \o <<<<"http://", "localhost", ":8080">>, <<"http://", "localhost", ":5173">>,
               <<"http://", "localhost", ":3000">>>>
        known ==
          \/ \E i \in 1..Len(configured) : configured[i] = cors.origin
          \/ /\ Len(cors.origin) > 1
             /\ cors.origin[Len(cors.origin)] \in {".lovableproject.com", ".lovable.app"}
    IN /\ cors.header # <<"*">>
       /\ cors.header = IF known THEN cors.origin ELSE configured[1]

\* ---- C22 (SpecPage) ----------------------------------------------------
\* C22: in the step in which the history insert of an analysis settles,
\* whether saved, answered with an error or thrown, the page shows the
\* result: analysisResults is the data the invocation returned and
\* isComplete is true; the history refresh counter goes up by one when the
\* insert succeeded and is unchanged otherwise.
C22_ResultSurvivesInsert ==
  [][\A i \in 1..Len(tasks) :
       (tasks[i].at = "inserting" /\ tasks'[i].at = "shown") =>
         /\ page'.analysisResults = tasks[i].data
         /\ page'.isComplete
         /\ page'.historyRefresh = page.historyRefresh + (IF tasks'[i].saved = "ok" THEN 1 ELSE 0)]_vars

C22_Witness ==
  \E i \in 1..Len(tasks) :
    /\ tasks[i].at = "shown"
    /\ tasks[i].saved = "throws"
    /\ tasks[i].data \in PageAnalyses
    /\ page.analysisResults = tasks[i].data
    /\ page.isComplete
    /\ page.historyRefresh = 0

\* ---- C23 (SpecPage) ----------------------------------------------------
\* C23: in the step in which an invocation fails (an error returned, an
\* error field in the body, or an exception), the page shows a destructive
\* toast and leaves the processing state; in either page.
C23_FailureReported ==
  [][\A i \in 1..Len(tasks) :
       (tasks[i].at = "invoking" /\ tasks'[i].at = "failed") =>
         /\ page'.toast = "destructive"
         /\ ~page'.isProcessing]_vars

\* ---- C25 (SpecPage) ----------------------------------------------------
\* C25: the object a click on a history entry hands to the results view
\* has, at its top level, the three groups, each an object with its score
\* and its leaves, and proficiencyLevel and summary.  (A step that sets
\* analysisResults while no analysis moves is a click on a history entry.)
C25_HistoryShape ==
  [][(tasks' = tasks /\ page'.analysisResults # page.analysisResults /\ page'.analysisResults # Null) =>
       /\ \A i \in 1..Len(GROUPS) :
            LET grp == Get(page'.analysisResults, Key(GROUPS[i])) IN
            /\ grp.t = "obj"
            /\ HasProp(grp, Key("score"))
            /\ \A j \in 1..Len(LEAVES[GROUPS[i]]) : HasProp(grp, Key(LEAVES[GROUPS[i]][j]))
       /\ HasProp(page'.analysisResults, Key("proficiencyLevel"))
       /\ HasProp(page'.analysisResults, Key("summary"))]_vars

\* ---- C26 (SpecPage) ----------------------------------------------------
\* C26: the type of every file the uploader holds as selected, the file a
\* click on Analyze Speech submits, is one of the handler's allowed MIME
\* types.
C26_SelectedTypeAllowed ==
  page.selectedFile # NoFile => page.selectedFile.text \in ALLOWED_MIME_TYPES

\* ---- C28 (SpecPage) ----------------------------------------------------
\* C28: at most one invocation of the function is in flight at any time.
C28_OneInFlight ==
  Cardinality({i \in 1..Len(tasks) : tasks[i].at = "invoking"}) <= 1

====
